---- MODULE Spec2Model ----
(***************************************************************************)
(* Reconciliation core of the support bot: the periodic status sync of     *)
(* local tasks with Bitrix24 (status_sync_service.py), the task store      *)
(* (task_service.py, models.py) and the Bitrix24 client (bitrix24_api.py). *)
(***************************************************************************)
EXTENDS Integers, Sequences, FiniteSets, TLC

(* ------------------------------ bounds --------------------------------- *)
\* Tasks that were created in Bitrix24 (bitrix24_task_id set).
NumTasks == 2
\* Changes on the Bitrix24 side during a behaviour.
MaxRemoteChanges == 2

(* ------------------------------ data ----------------------------------- *)
Null == "None"
\* None in an Integer column
NullId == 0 - 1

TaskStatus_NEW == "new"
TaskStatus_IN_PROGRESS == "in_progress"
TaskStatus_COMPLETED == "completed"
TaskStatus_CANCELLED == "cancelled"
TaskStatus == {TaskStatus_NEW, TaskStatus_IN_PROGRESS, TaskStatus_COMPLETED, TaskStatus_CANCELLED}

\* Rows of the tasks table: the tasks mirrored in Bitrix24 and one task
\* whose creation in Bitrix24 failed (it stays local, bitrix24_task_id None).
Linked == 1..NumTasks
LocalOnly == NumTasks + 1
Tasks == Linked \cup {LocalOnly}

\* Columns written once by create_task and never updated afterwards.
telegram_chat_id(t) == 0 - (100 + t)
telegram_user_id(t) == 10 + t
telegram_message_id(t) == 1000 + t
bitrix24_task_id(t) == IF t \in Linked THEN 500 + t ELSE NullId

\* Status tokens Bitrix24 may put into the "status" field of a task;
\* Null stands for a task representation that carries no "status" key.
RemoteCodes == {"0", "1", "2", "3", "4", "5", "6", "7", "8", Null}

\* Lower-cased texts of the exceptions _make_request may raise, word by word.
ErrorTexts ==
    { <<"access", "denied">>,
      <<"404", "client", "error", "not", "found", "for", "url">>,
      <<"read", "timed", "out">> }

\* What tasks.task.get yields for one task id, as seen through _make_request.
Responses ==
    [kind : {"task"}, status : RemoteCodes]
      \cup [kind : {"no_task", "empty_list"}]
      \cup [kind : {"error"}, text : ErrorTexts]

\* The loops that run sync_all_active_tasks.
Runners == {"sched"}

\* The /sync command runs a cycle of its own inside its handler.
Manual == "manual"
AllRunners == Runners \cup {Manual}

VARIABLES
    db,            \* tasks table: task id -> [status, bitrix24_task_id]
    remote,        \* Bitrix24 side: task id -> current response of tasks.task.get
    telegram_app,  \* StatusSyncService.telegram_app is set
    pc,            \* runner -> position inside the loop and sync_all_active_tasks
    active_tasks,  \* runner -> rows loaded by the selection query (session objects)
    idx,           \* runner -> index of the task being synced
    mapped_status, \* runner -> local mapped_status of sync_single_task
    log,           \* runner -> events of the runner's cycle
    send_failed,   \* runner -> kinds of send that failed for the task being synced
    changes,       \* number of remote changes so far
    seen,          \* tasks fetched, with no failed store write, since their
                   \*   remote state last changed
    deletionRan,   \* tasks for which handle_deleted_task has run
    delBefore,     \* runner -> deletionRan when the runner's cycle started
    startDb        \* runner -> the tasks table when the runner's cycle started

vars == <<db, remote, telegram_app, pc, active_tasks, idx, mapped_status, log,
          send_failed, changes, seen, deletionRan, delBefore, startDb>>

\* State of the Telegram <-> Bitrix24 identity link (telegram_bitrix_sync).
VARIABLES
    bitrix_users,  \* Bitrix24 side: user id -> Telegram id held in its fields
    cached_users,  \* TelegramBitrixSyncService._cached_users
    cache_loaded,  \* TelegramBitrixSyncService._cache_loaded
    bot_users,     \* bot_users table: Telegram id -> bitrix24_user_id
    initialized,   \* the post_init job has run
    edits,         \* number of edits made by hand in Bitrix24 so far
    op,            \* the last call served: name, arguments, result, tiers asked
    loading        \* the load_cache call in progress: position, fetched users

idvars == <<bitrix_users, cached_users, cache_loaded, bot_users, initialized, edits, op,
           loading>>

VARIABLES
    roles,         \* bot_users table: Telegram user -> role and is_active, or no row
    request        \* the last guarded command: name, caller, target, verdict

accvars == <<roles, request>>

(* ------------------------- bitrix24_api.get_task ----------------------- *)
\* Keywords that get_task takes as the sign of a deleted task, word by word
\* (the second one is the Russian "zadacha ne naidena").
DeletedKeywords ==
    { <<"task", "not", "found">>,
      <<"zadacha", "ne", "naidena">>,
      <<"access", "denied">>,
      <<"404">>,
      <<"not", "found">> }

\* keyword in error_text
IsInfix(k, text) ==
    \E i \in 0..(Len(text) - Len(k)) :
        \A j \in 1..Len(k) : text[i + j] = k[j]

ContainsDeletedKeyword(text) ==
    \E k \in DeletedKeywords : IsInfix(k, text)

\* get_task taking every exception as the sign of a deleted task.
get_task_any_error(resp) ==
    CASE resp.kind = "error" -> [out |-> "none"]
      [] resp.kind = "empty_list" -> [out |-> "none"]
      [] resp.kind = "no_task" -> [out |-> "none"]
      [] OTHER -> [out |-> "dict", status |-> resp.status]

\* Result of get_task: "raise" | None | the task dict (by its status field).
get_task(resp) ==
    CASE resp.kind = "error" ->
           IF ContainsDeletedKeyword(resp.text)
             THEN [out |-> "none"]
             ELSE [out |-> "raise"]
      [] resp.kind = "empty_list" -> [out |-> "none"]
      [] resp.kind = "no_task" -> [out |-> "none"]
      [] OTHER -> [out |-> "dict", status |-> resp.status]

(* --------------------- status_map of sync_single_task ------------------ *)
\* status_map with "4" (deferred) read as completed.
status_map_deferred(code) ==
    CASE code = "1" -> TaskStatus_NEW
      [] code = "2" -> TaskStatus_NEW
      [] code = "3" -> TaskStatus_IN_PROGRESS
      [] code = "4" -> TaskStatus_COMPLETED
      [] code = "5" -> TaskStatus_COMPLETED
      [] code = "6" -> TaskStatus_COMPLETED
      [] code = "7" -> TaskStatus_CANCELLED
      [] OTHER -> Null

\* status_map.get(code, TaskStatus.NEW): a default for unknown codes.
status_map_default(code) ==
    CASE code = "1" -> TaskStatus_NEW
      [] code = "2" -> TaskStatus_NEW
      [] code = "3" -> TaskStatus_IN_PROGRESS
      [] code = "4" -> TaskStatus_CANCELLED
      [] code = "5" -> TaskStatus_COMPLETED
      [] code = "6" -> TaskStatus_COMPLETED
      [] code = "7" -> TaskStatus_CANCELLED
      [] OTHER -> TaskStatus_NEW

status_map(code) ==
    CASE code = "1" -> TaskStatus_NEW
      [] code = "2" -> TaskStatus_NEW
      [] code = "3" -> TaskStatus_IN_PROGRESS
      [] code = "4" -> TaskStatus_CANCELLED
      [] code = "5" -> TaskStatus_COMPLETED
      [] code = "6" -> TaskStatus_COMPLETED
      [] code = "7" -> TaskStatus_CANCELLED
      [] OTHER -> Null

(* ------------------------------ task store ----------------------------- *)
\* The selection query without its status condition.
ActiveFilter_any_status(row) ==
    row.bitrix24_task_id # NullId

\* The selection filter without the condition on bitrix24_task_id.
ActiveFilter_any_id(row) ==
    row.status \in {TaskStatus_NEW, TaskStatus_IN_PROGRESS}

\* Filter of the selection query of sync_all_active_tasks.
ActiveFilter(row) ==
    /\ row.bitrix24_task_id # NullId
    /\ row.status \in {TaskStatus_NEW, TaskStatus_IN_PROGRESS}

\* update_task_status without its filter on Task.id: first() is row 1.
update_task_status_first_row(d, t, status) ==
    [d EXCEPT ![1].status = status]

\* update_task_status moving the stored status one step on instead of
\* storing the status it is given.
update_task_status_relative(d, t, status) ==
    [d EXCEPT ![t].status =
        CASE @ = TaskStatus_NEW -> TaskStatus_IN_PROGRESS
          [] @ = TaskStatus_IN_PROGRESS -> TaskStatus_COMPLETED
          [] OTHER -> @]

\* TaskService.update_task_status on a reachable store.
update_task_status(d, t, status) ==
    [d EXCEPT ![t].status = status]

\* Rows 1..n of the table that pass the filter, in id order.
RECURSIVE SelectActive(_, _)
SelectActive(d, n) ==
    IF n = 0 THEN <<>>
    ELSE LET rest == SelectActive(d, n - 1)
         IN IF ActiveFilter(d[n])
              THEN Append(rest, [id |-> n, status |-> d[n].status])
              ELSE rest

(* ------------------------------- events -------------------------------- *)
\* again: the task had been fetched before with the same remote state.
EvGet(t, resp, out, mapped, again) ==
    [ev |-> "get_task", task |-> t, resp |-> resp, out |-> out,
     mapped |-> mapped, again |-> again]
EvFail(what, t) == [ev |-> what, task |-> t]
EvWrite(t, old, s) == [ev |-> "write", task |-> t, old |-> old, status |-> s]
EvSend(k, t, to, reply) ==
    [ev |-> "send", kind |-> k, task |-> t, chat_id |-> to, reply_to |-> reply]

(* ------------------ Telegram <-> Bitrix24 identities ------------------- *)
\* Users of the Bitrix24 portal, by ID, in the order user.get lists them.
NumBitrixUsers == 2
BitrixUsers == 1..NumBitrixUsers
\* Edits made by hand in Bitrix24 during a behaviour.
MaxBitrixEdits == 2

\* None as a Bitrix24 user id
NoUser == 0
\* The Telegram id the handlers are called with, as a string; "" is an empty field.
TelegramIds == {"111"}
NoTelegram == ""

\* The fields of a Bitrix24 user the code looks into for a Telegram id, in
\* the order of possible_fields: uf is UF_TELEGRAM_ID, the field user.update
\* writes; custom stands for the fields after it (tgID, UF_USR_...).
possible_fields == <<"uf", "custom">>

\* Bitrix24API.get_users: a failing request is caught and yields [].
get_users(b, ok) ==
    IF ok THEN [i \in 1..NumBitrixUsers |-> [ID |-> i, uf |-> b[i].uf, custom |-> b[i].custom]]
          ELSE <<>>

\* TELEGRAM_ID of get_users_with_telegram_ids: the first non-empty field.
TELEGRAM_ID(user) ==
    IF user.uf # NoTelegram THEN user.uf ELSE user.custom

\* load_cache keeping the first user that carries a Telegram id.
RECURSIVE LoadedMap_first_wins(_, _)
LoadedMap_first_wins(users, n) ==
    IF n = 0 THEN [tg \in TelegramIds |-> NoUser]
    ELSE LET m == LoadedMap_first_wins(users, n - 1)
             tg == TELEGRAM_ID(users[n])
         IN IF tg # NoTelegram /\ m[tg] = NoUser
              THEN [m EXCEPT ![tg] = users[n].ID] ELSE m

\* The map load_cache builds from get_users_with_telegram_ids: a later user
\* with the same Telegram id overwrites an earlier one.
RECURSIVE LoadedMap(_, _)
LoadedMap(users, n) ==
    IF n = 0 THEN [tg \in TelegramIds |-> NoUser]
    ELSE LET m == LoadedMap(users, n - 1)
             tg == TELEGRAM_ID(users[n])
         IN IF tg # NoTelegram THEN [m EXCEPT ![tg] = users[n].ID] ELSE m

\* TelegramBitrixSyncService.load_cache: the new map and the loaded flag.
load_cache(b, ok) ==
    [cache |-> LoadedMap(get_users(b, ok), Len(get_users(b, ok))), loaded |-> TRUE]

\* Bitrix24API.find_bitrix_user_by_telegram: the first user one of whose
\* fields holds the Telegram id.
RECURSIVE get_user_by_telegram_id(_, _, _)
get_user_by_telegram_id(users, tg, from) ==
    IF from > Len(users) THEN NoUser
    ELSE IF \E f \in 1..Len(possible_fields) : users[from][possible_fields[f]] = tg
           THEN users[from].ID
           ELSE get_user_by_telegram_id(users, tg, from + 1)

find_bitrix_user_by_telegram(b, tg, ok) ==
    get_user_by_telegram_id(get_users(b, ok), tg, 1)

\* get_bitrix_user_id returning what the point lookup found without
\* adding it to the cache.
get_bitrix_user_id_no_insert(c, l, b, tg, okLoad, okLookup) ==
    LET ld == IF l THEN [cache |-> c, loaded |-> l] ELSE load_cache(b, okLoad)
        pre == IF l THEN <<>> ELSE <<"load">>
        lf == IF ~l /\ ~okLoad THEN {"load"} ELSE {}
    IN IF ld.cache[tg] # NoUser
         THEN [cache |-> ld.cache, loaded |-> ld.loaded, result |-> ld.cache[tg],
               calls |-> pre \o <<"cache">>, failed |-> lf]
         ELSE [cache |-> ld.cache, loaded |-> ld.loaded,
               result |-> find_bitrix_user_by_telegram(b, tg, okLookup),
               calls |-> pre \o <<"cache", "lookup">>,
               failed |-> lf \cup (IF okLookup THEN {} ELSE {"lookup"})]

\* TelegramBitrixSyncService.get_bitrix_user_id: the cache and the flag
\* after the call, its result, the tiers it asked in order and the requests
\* to Bitrix24 that failed on the way.
get_bitrix_user_id(c, l, b, tg, okLoad, okLookup) ==
    LET ld == IF l THEN [cache |-> c, loaded |-> l] ELSE load_cache(b, okLoad)
        pre == IF l THEN <<>> ELSE <<"load">>
        lf == IF ~l /\ ~okLoad THEN {"load"} ELSE {}
    IN IF ld.cache[tg] # NoUser
         THEN [cache |-> ld.cache, loaded |-> ld.loaded, result |-> ld.cache[tg],
               calls |-> pre \o <<"cache">>, failed |-> lf]
         ELSE LET found == find_bitrix_user_by_telegram(b, tg, okLookup)
                  ff == IF okLookup THEN {} ELSE {"lookup"}
              IN IF found # NoUser
                   THEN [cache |-> [ld.cache EXCEPT ![tg] = found],
                         loaded |-> ld.loaded, result |-> found,
                         calls |-> pre \o <<"cache", "lookup">>, failed |-> lf \cup ff]
                   ELSE [cache |-> ld.cache, loaded |-> ld.loaded, result |-> NoUser,
                         calls |-> pre \o <<"cache", "lookup">>, failed |-> lf \cup ff]

\* Bitrix24API.update_user_telegram_id: user.update on UF_TELEGRAM_ID.
update_user_telegram_id(b, u, tg) ==
    [b EXCEPT ![u].uf = tg]

\* EmployeeService.update_global_user_profile; a failing commit is rolled
\* back and reported by False, which add_telegram_link does not read.
update_global_user_profile(bu, tg, u, ok) ==
    IF ok THEN [bu EXCEPT ![tg] = u] ELSE bu

\* add_telegram_link writing the cache and bot_users before user.update.
add_telegram_link_cache_first(c, bu, b, u, tg, okWrite, okDb) ==
    [cache |-> [c EXCEPT ![tg] = u],
     bot_users |-> update_global_user_profile(bu, tg, u, okDb),
     bitrix |-> IF okWrite THEN update_user_telegram_id(b, u, tg) ELSE b,
     result |-> okWrite]

\* TelegramBitrixSyncService.add_telegram_link: user.update, and only when
\* it succeeded the cache entry and the bot_users row.
add_telegram_link(c, bu, b, u, tg, okWrite, okDb) ==
    IF okWrite
      THEN [cache |-> [c EXCEPT ![tg] = u],
            bot_users |-> update_global_user_profile(bu, tg, u, okDb),
            bitrix |-> update_user_telegram_id(b, u, tg),
            result |-> TRUE]
      ELSE [cache |-> c, bot_users |-> bu, bitrix |-> b, result |-> FALSE]

\* remove_telegram_link dropping the cache entry before user.update.
remove_telegram_link_cache_first(c, b, tg, okLookup, okWrite) ==
    LET r == get_bitrix_user_id(c, TRUE, b, tg, TRUE, okLookup) IN
    IF r.result = NoUser
      THEN [cache |-> r.cache, bitrix |-> b, result |-> FALSE, status |-> "not_found"]
      ELSE [cache |-> [r.cache EXCEPT ![tg] = NoUser],
            bitrix |-> IF okWrite THEN update_user_telegram_id(b, r.result, NoTelegram)
                                  ELSE b,
            result |-> okWrite,
            status |-> IF okWrite THEN "ok" ELSE "write_failed"]

\* TelegramBitrixSyncService.remove_telegram_link, the cache being loaded:
\* get_bitrix_user_id, user.update with "", then the cache entry is dropped.
remove_telegram_link(c, b, tg, okLookup, okWrite) ==
    LET r == get_bitrix_user_id(c, TRUE, b, tg, TRUE, okLookup) IN
    IF r.result = NoUser
      THEN [cache |-> r.cache, bitrix |-> b, result |-> FALSE, status |-> "not_found"]
      ELSE IF okWrite
        THEN [cache |-> [r.cache EXCEPT ![tg] = NoUser],
              bitrix |-> update_user_telegram_id(b, r.result, NoTelegram),
              result |-> TRUE, status |-> "ok"]
        ELSE [cache |-> r.cache, bitrix |-> b, result |-> FALSE,
              status |-> "write_failed"]

\* The call record: the call and its arguments, how it ended, the Bitrix24
\* id it returned, the tiers it asked in order, the requests that failed.
Op(name, tg, user, status, result, calls, failed) ==
    [name |-> name, tg |-> tg, user |-> user, status |-> status,
     result |-> result, calls |-> calls, failed |-> failed]

\* Nothing loaded, no user of the portal carries a Telegram id yet, the
\* bot_users table holds no Bitrix24 id.
\* Telegram users that send commands to the bot.
NumBotUsers == 2
BotUserIds == 1..NumBotUsers
\* No row of bot_users for the user.
NoRole == [role |-> "None", is_active |-> FALSE]
NoRequest == [cmd |-> "none", caller |-> 0, target |-> 0, verdict |-> "none"]

\* No load_cache call is in progress; before is the map the last one found.
NoLoad(before) == [pc |-> "idle", users |-> <<>>, k |-> 0, before |-> before]

InitIdentity ==
    /\ bitrix_users = [u \in BitrixUsers |-> [uf |-> NoTelegram, custom |-> NoTelegram]]
    /\ cached_users = [tg \in TelegramIds |-> NoUser]
    /\ cache_loaded = FALSE
    /\ bot_users = [tg \in TelegramIds |-> NoUser]
    /\ initialized = FALSE
    /\ edits = 0
    /\ op = Op("none", NoTelegram, NoUser, "ok", NoUser, <<>>, {})
    /\ loading = NoLoad([tg \in TelegramIds |-> NoUser])
    /\ roles = [u \in BotUserIds |-> NoRole]
    /\ request = NoRequest

(* -------------------------------- Init --------------------------------- *)
\* Tasks are created with status new (TaskService.create_task); Bitrix24
\* holds the mirrored ones as waiting ("2", the code update_task_status of
\* bitrix24_api sends for new) and knows nothing of the local one.
Init ==
    /\ db = [t \in Tasks |->
               [status |-> TaskStatus_NEW, bitrix24_task_id |-> bitrix24_task_id(t)]]
    /\ remote = [t \in Tasks |->
                   IF t \in Linked THEN [kind |-> "task", status |-> "2"]
                                   ELSE [kind |-> "empty_list"]]
    /\ telegram_app = FALSE
    /\ pc = [r \in AllRunners |-> "idle"]
    /\ active_tasks = [r \in AllRunners |-> <<>>]
    /\ idx = [r \in AllRunners |-> 0]
    /\ mapped_status = [r \in AllRunners |-> Null]
    /\ log = [r \in AllRunners |-> <<>>]
    /\ send_failed = [r \in AllRunners |-> {}]
    /\ changes = 0
    /\ seen = {}
    /\ deletionRan = {}
    /\ delBefore = [r \in AllRunners |-> {}]
    /\ startDb = [r \in AllRunners |-> db]
    /\ InitIdentity

(* --------------------- main.py / set_telegram_app ---------------------- *)
set_telegram_app ==
    /\ ~telegram_app
    /\ telegram_app' = TRUE
    /\ UNCHANGED <<db, remote, pc, active_tasks, idx, mapped_status, log,
                   send_failed, changes, seen, deletionRan, delBefore, startDb>>
    /\ UNCHANGED <<idvars, accvars>>

(* ------------- StatusSyncService.sync_all_active_tasks ----------------- *)
\* Selection query of one cycle.  A query that raises is caught by the
\* handler of sync_all_active_tasks and ends the cycle.
start_cycle(r) ==
    /\ pc[r] = "idle"
    /\ telegram_app
    /\ \E queryOk \in BOOLEAN :
          LET rows == IF queryOk THEN SelectActive(db, NumTasks + 1) ELSE <<>> IN
          /\ active_tasks' = [active_tasks EXCEPT ![r] = rows]
          /\ idx' = [idx EXCEPT ![r] = IF rows = <<>> THEN 0 ELSE 1]
          /\ pc' = [pc EXCEPT ![r] = IF rows = <<>> THEN "done" ELSE "sync"]
          /\ log' = [log EXCEPT ![r] =
                       IF queryOk THEN <<>> ELSE <<EvFail("query_failed", 0)>>]
    /\ delBefore' = [delBefore EXCEPT ![r] = deletionRan]
    /\ startDb' = [startDb EXCEPT ![r] = db]
    /\ mapped_status' = [mapped_status EXCEPT ![r] = Null]
    /\ send_failed' = [send_failed EXCEPT ![r] = {}]
    /\ UNCHANGED <<db, remote, telegram_app, changes, seen, deletionRan>>
    /\ UNCHANGED idvars

sync_all_active_tasks(r) ==
    start_cycle(r) /\ UNCHANGED accvars

(* --------------- StatusSyncService.handle_deleted_task ----------------- *)
\* Store after "task.status = cancelled; db.commit()": the commit is issued
\* on a session opened inside handle_deleted_task, while the task object
\* belongs to the session of the selection query, which is closed without
\* a commit (sessions are created with autoflush=False).
handle_deleted_task_commit(d, t) == d

(* ---------------- StatusSyncService.sync_single_task ------------------- *)
\* sync_single_task with an awaited get_task: the coroutine is suspended
\* between the fetch and the comparison, and goes on from "fetched".
sync_single_task_suspending(r) ==
    /\ \/ /\ pc[r] = "sync"
          /\ LET t == active_tasks[r][idx[r]].id
                 res == get_task(remote[t])
                 mapped == IF res.out = "dict" THEN status_map(res.status) ELSE Null
             IN /\ log' = [log EXCEPT ![r] =
                             Append(@, EvGet(t, remote[t], res.out, mapped, t \in seen))]
                /\ mapped_status' = [mapped_status EXCEPT ![r] = mapped]
                /\ seen' = seen \cup {t}
          /\ pc' = [pc EXCEPT ![r] = "fetched"]
          /\ UNCHANGED <<db, active_tasks, deletionRan>>
       \/ /\ pc[r] = "fetched"
          /\ LET task == active_tasks[r][idx[r]]
                 t == task.id
                 out == log[r][Len(log[r])].out
                 mapped == mapped_status[r]
             IN IF out = "none"
                  THEN /\ active_tasks' = [active_tasks EXCEPT
                                             ![r][idx[r]].status = TaskStatus_CANCELLED]
                       /\ db' = handle_deleted_task_commit(db, t)
                       /\ deletionRan' = deletionRan \cup {t}
                       /\ pc' = [pc EXCEPT ![r] = "send_deletion"]
                       /\ UNCHANGED <<log, mapped_status, seen>>
                ELSE IF out = "dict" /\ mapped # Null /\ task.status # mapped
                  THEN /\ db' = update_task_status(db, t, mapped)
                       /\ log' = [log EXCEPT ![r] =
                                    Append(@, EvWrite(t, task.status, mapped))]
                       /\ pc' = [pc EXCEPT ![r] = "send_direct"]
                       /\ UNCHANGED <<active_tasks, mapped_status, seen, deletionRan>>
                  ELSE /\ pc' = [pc EXCEPT ![r] = "sleep"]
                       /\ UNCHANGED <<db, active_tasks, log, mapped_status, seen,
                                      deletionRan>>
    /\ send_failed' = [send_failed EXCEPT ![r] = {}]
    /\ UNCHANGED <<remote, telegram_app, idx, changes, delBefore, startDb>>
    /\ UNCHANGED <<idvars, accvars>>

\* From get_task up to the first await: get_task, the mapping, the
\* comparison and the store write are synchronous calls.
sync_single_task(r) ==
    /\ pc[r] = "sync"
    /\ LET task == active_tasks[r][idx[r]]
           t == task.id
           res == get_task(remote[t])
           mapped == IF res.out = "dict" THEN status_map(res.status) ELSE Null
           got == EvGet(t, remote[t], res.out, mapped, t \in seen)
       IN
       CASE res.out = "raise" ->
                /\ log' = [log EXCEPT ![r] = Append(@, got)]
                /\ pc' = [pc EXCEPT ![r] = "sleep"]
                /\ seen' = seen \cup {t}
                /\ UNCHANGED <<db, active_tasks, mapped_status, deletionRan>>
         [] res.out = "none" ->
                /\ active_tasks' = [active_tasks EXCEPT
                                      ![r][idx[r]].status = TaskStatus_CANCELLED]
                /\ db' = handle_deleted_task_commit(db, t)
                /\ deletionRan' = deletionRan \cup {t}
                /\ log' = [log EXCEPT ![r] = Append(@, got)]
                /\ pc' = [pc EXCEPT ![r] = "send_deletion"]
                /\ seen' = seen \cup {t}
                /\ UNCHANGED mapped_status
         [] res.out = "dict" /\ (mapped = Null \/ task.status = mapped) ->
                /\ log' = [log EXCEPT ![r] = Append(@, got)]
                /\ pc' = [pc EXCEPT ![r] = "sleep"]
                /\ seen' = seen \cup {t}
                /\ UNCHANGED <<db, active_tasks, mapped_status, deletionRan>>
         [] OTHER ->
                \E storeOk \in BOOLEAN :
                   IF storeOk
                     THEN /\ db' = update_task_status(db, t, mapped)
                          /\ log' = [log EXCEPT ![r] =
                                       Append(Append(@, got),
                                              EvWrite(t, task.status, mapped))]
                          /\ mapped_status' = [mapped_status EXCEPT ![r] = mapped]
                          /\ pc' = [pc EXCEPT ![r] = "send_direct"]
                          /\ seen' = seen \cup {t}
                          /\ UNCHANGED <<active_tasks, deletionRan>>
                     ELSE /\ log' = [log EXCEPT ![r] =
                                       Append(Append(@, got), EvFail("write_failed", t))]
                          /\ pc' = [pc EXCEPT ![r] = "sleep"]
                          /\ seen' = seen \ {t}
                          /\ UNCHANGED <<db, active_tasks, mapped_status,
                                         deletionRan>>
    /\ send_failed' = [send_failed EXCEPT ![r] = {}]
    /\ UNCHANGED <<remote, telegram_app, idx, changes, delBefore, startDb>>
    /\ UNCHANGED <<idvars, accvars>>

\* One bot.send_message call of the three notification methods.
\* Without a Telegram application the methods return before sending; a
\* failing send (ok false) is caught and logged inside the method.
Notify(r, kind, to, reply, next, ok) ==
    /\ LET t == active_tasks[r][idx[r]].id IN
         IF telegram_app
           THEN /\ log' = [log EXCEPT ![r] = Append(@, EvSend(kind, t, to, reply))]
                /\ send_failed' = [send_failed EXCEPT ![r] =
                                     IF ok THEN @ ELSE @ \cup {kind}]
           ELSE UNCHANGED <<log, send_failed>>
    /\ pc' = [pc EXCEPT ![r] = next]
    /\ UNCHANGED <<remote, telegram_app, active_tasks, idx, mapped_status,
                   changes, seen, deletionRan, delBefore, startDb>>
    /\ UNCHANGED <<idvars, accvars>>

\* No reply_to_message_id on the direct message.
NoReply == 0

\* send_sync_notification undoing the status write when its send fails.
send_sync_notification_rollback(r) ==
    /\ pc[r] = "send_direct"
    /\ LET task == active_tasks[r][idx[r]] IN
         \E ok \in BOOLEAN :
            /\ Notify(r, "direct", telegram_user_id(task.id), NoReply, "send_chat", ok)
            /\ IF ok THEN UNCHANGED db
                     ELSE db' = update_task_status(db, task.id, task.status)

\* send_sync_notification giving up the chat reply when its own send fails.
send_sync_notification_skip_chat(r) ==
    /\ pc[r] = "send_direct"
    /\ LET t == active_tasks[r][idx[r]].id IN
         \E ok \in BOOLEAN :
            Notify(r, "direct", telegram_user_id(t), NoReply,
                   IF ok THEN "send_chat" ELSE "sleep", ok)
    /\ UNCHANGED db

send_sync_notification(r) ==
    /\ pc[r] = "send_direct"
    /\ LET t == active_tasks[r][idx[r]].id IN
         \E ok \in BOOLEAN :
            Notify(r, "direct", telegram_user_id(t), NoReply, "send_chat", ok)
    /\ UNCHANGED db

\* send_chat_sync_notification posting to the chat without replying to
\* the original message.
send_chat_sync_notification_no_reply(r) ==
    /\ pc[r] = "send_chat"
    /\ LET t == active_tasks[r][idx[r]].id IN
         \E ok \in BOOLEAN :
            Notify(r, "chat", telegram_chat_id(t), NoReply, "sleep", ok)
    /\ UNCHANGED db

send_chat_sync_notification(r) ==
    /\ pc[r] = "send_chat"
    /\ LET t == active_tasks[r][idx[r]].id IN
         \E ok \in BOOLEAN :
            Notify(r, "chat", telegram_chat_id(t), telegram_message_id(t), "sleep", ok)
    /\ UNCHANGED db

send_deletion_notification_to_chat(r) ==
    /\ pc[r] = "send_deletion"
    /\ LET t == active_tasks[r][idx[r]].id IN
         \E ok \in BOOLEAN :
            Notify(r, "deletion", telegram_chat_id(t), telegram_message_id(t),
                   "sleep", ok)
    /\ UNCHANGED db

\* The loop over the selected tasks ending at a task whose store write
\* failed.
inter_task_sleep_abort(r) ==
    /\ pc[r] = "sleep"
    /\ IF idx[r] < Len(active_tasks[r])
            /\ log[r][Len(log[r])].ev # "write_failed"
         THEN /\ idx' = [idx EXCEPT ![r] = @ + 1]
              /\ pc' = [pc EXCEPT ![r] = "sync"]
         ELSE /\ idx' = [idx EXCEPT ![r] = 0]
              /\ pc' = [pc EXCEPT ![r] = "done"]
    /\ mapped_status' = [mapped_status EXCEPT ![r] = Null]
    /\ UNCHANGED <<db, remote, telegram_app, active_tasks, log, send_failed,
                   changes, seen, deletionRan, delBefore, startDb>>
    /\ UNCHANGED <<idvars, accvars>>

\* sync_all_active_tasks ending the cycle when the get_task of the task
\* just handled raised.
inter_task_sleep_stop_on_raise(r) ==
    /\ pc[r] = "sleep"
    /\ IF idx[r] < Len(active_tasks[r])
            /\ ~(log[r][Len(log[r])].ev = "get_task"
                  /\ log[r][Len(log[r])].out = "raise")
         THEN /\ idx' = [idx EXCEPT ![r] = @ + 1]
              /\ pc' = [pc EXCEPT ![r] = "sync"]
         ELSE /\ idx' = [idx EXCEPT ![r] = 0]
              /\ pc' = [pc EXCEPT ![r] = "done"]
    /\ mapped_status' = [mapped_status EXCEPT ![r] = Null]
    /\ UNCHANGED <<db, remote, telegram_app, active_tasks, log, send_failed,
                   changes, seen, deletionRan, delBefore, startDb>>
    /\ UNCHANGED <<idvars, accvars>>

\* await asyncio.sleep(0.5), then the next task or the end of the cycle.
inter_task_sleep(r) ==
    /\ pc[r] = "sleep"
    /\ IF idx[r] < Len(active_tasks[r])
         THEN /\ idx' = [idx EXCEPT ![r] = @ + 1]
              /\ pc' = [pc EXCEPT ![r] = "sync"]
         ELSE /\ idx' = [idx EXCEPT ![r] = 0]
              /\ pc' = [pc EXCEPT ![r] = "done"]
    /\ mapped_status' = [mapped_status EXCEPT ![r] = Null]
    /\ UNCHANGED <<db, remote, telegram_app, active_tasks, log, send_failed,
                   changes, seen, deletionRan, delBefore, startDb>>
    /\ UNCHANGED <<idvars, accvars>>

(* --------------- StatusSyncService.start_periodic_sync ----------------- *)
\* The cycle of r was ended by an exception (the selection query raised).
Aborted(r) ==
    /\ pc[r] = "done"
    /\ \E k \in DOMAIN log[r] : log[r][k].ev = "query_failed"

\* start_periodic_sync leaving its loop after a cycle that failed.
start_periodic_sync_sleep_exit(r) ==
    /\ pc[r] = "done"
    /\ pc' = [pc EXCEPT ![r] = IF Aborted(r) THEN "exited" ELSE "idle"]
    /\ active_tasks' = [active_tasks EXCEPT ![r] = <<>>]
    /\ log' = [log EXCEPT ![r] = <<>>]
    /\ send_failed' = [send_failed EXCEPT ![r] = {}]
    /\ delBefore' = [delBefore EXCEPT ![r] = {}]
    /\ startDb' = [startDb EXCEPT ![r] = db]
    /\ UNCHANGED <<db, remote, telegram_app, idx, mapped_status, changes, seen,
                   deletionRan>>
    /\ UNCHANGED <<idvars, accvars>>

\* await asyncio.sleep(interval_minutes * 60) after a cycle has returned.
\* The locals of the finished cycle are gone; its record is dropped.
start_periodic_sync_sleep(r) ==
    /\ pc[r] = "done"
    /\ pc' = [pc EXCEPT ![r] = "idle"]
    /\ active_tasks' = [active_tasks EXCEPT ![r] = <<>>]
    /\ log' = [log EXCEPT ![r] = <<>>]
    /\ send_failed' = [send_failed EXCEPT ![r] = {}]
    /\ delBefore' = [delBefore EXCEPT ![r] = {}]
    /\ startDb' = [startDb EXCEPT ![r] = db]
    /\ UNCHANGED <<db, remote, telegram_app, idx, mapped_status, changes, seen,
                   deletionRan>>
    /\ UNCHANGED <<idvars, accvars>>

(* ------------------------------ Bitrix24 ------------------------------- *)
\* Somebody changes, deletes or breaks access to a task on the Bitrix24 side.
\* The remote state is only observed by get_task, once per task and cycle:
\* for the scheduled loop a change during a cycle acts as a change before
\* it (task not yet fetched) or after it, so changes are taken between
\* cycles.
RemoteChange(t, resp) ==
    /\ changes < MaxRemoteChanges
    /\ \A r \in Runners : pc[r] = "idle"
    /\ t \in Linked
    /\ resp # remote[t]
    /\ remote' = [remote EXCEPT ![t] = resp]
    /\ changes' = changes + 1
    /\ seen' = seen \ {t}
    /\ UNCHANGED <<db, telegram_app, pc, active_tasks, idx, mapped_status, log,
                   send_failed, deletionRan, delBefore, startDb>>
    /\ UNCHANGED <<idvars, accvars>>

Next ==
    \/ set_telegram_app
    \/ \E r \in Runners : sync_all_active_tasks(r)
    \/ \E r \in Runners : sync_single_task(r)
    \/ \E r \in Runners : send_sync_notification(r)
    \/ \E r \in Runners : send_chat_sync_notification(r)
    \/ \E r \in Runners : send_deletion_notification_to_chat(r)
    \/ \E r \in Runners : inter_task_sleep(r)
    \/ \E r \in Runners : start_periodic_sync_sleep(r)
    \/ \E t \in Tasks, resp \in Responses : RemoteChange(t, resp)

Spec == Init /\ [][Next]_vars

TypeOK ==
    /\ db \in [Tasks -> [status : TaskStatus,
                          bitrix24_task_id : {bitrix24_task_id(t) : t \in Tasks}]]
    /\ remote \in [Tasks -> Responses]
    /\ \A r \in AllRunners : idx[r] \in 0..(NumTasks + 1)
    /\ seen \subseteq Tasks

(* ------------------------- reading the event log ----------------------- *)
Terminal == {TaskStatus_COMPLETED, TaskStatus_CANCELLED}

\* sync_all_active_tasks has returned.
CycleDone(r) == pc[r] = "done"

Selected(r, t) == \E k \in DOMAIN active_tasks[r] : active_tasks[r][k].id = t

Gets(r, t) == {k \in DOMAIN log[r] : log[r][k].ev = "get_task" /\ log[r][k].task = t}

Writes(r, t) == {k \in DOMAIN log[r] : log[r][k].ev = "write" /\ log[r][k].task = t}

WriteFailures(r, t) ==
    {k \in DOMAIN log[r] : log[r][k].ev = "write_failed" /\ log[r][k].task = t}

Sends(r, t, kind) ==
    {k \in DOMAIN log[r] :
        log[r][k].ev = "send" /\ log[r][k].task = t /\ log[r][k].kind = kind}

AllSends(r, t) == Sends(r, t, "direct") \cup Sends(r, t, "chat") \cup Sends(r, t, "deletion")

\* The response get_task received for t in the runner's cycle was resp.
Got(r, t, resp) == \E k \in Gets(r, t) : log[r][k].resp = resp

\* get_task returned None for t because Bitrix24 answered with an empty list.
NotFoundSeen(r, t) ==
    \E k \in Gets(r, t) :
        log[r][k].out = "none" /\ log[r][k].resp.kind = "empty_list"

\* A network failure of the request (requests.Timeout).
IsTransient(resp) == resp.kind = "error" /\ resp.text = <<"read", "timed", "out">>

(* ------------------------------- C1 ------------------------------------ *)
\* C1: once a cycle has run the deletion path for a task, every later cycle
\* leaves that task out of its selection, never calls get_task for it and
\* never sends another deletion notice for it.
C1_DeletionTerminality ==
    \A r \in Runners : \A t \in delBefore[r] :
        /\ ~Selected(r, t)
        /\ Gets(r, t) = {}
        /\ Sends(r, t, "deletion") = {}

(* ------------------------------- C2 ------------------------------------ *)
\* C2 (Scenario B): when get_task reports NotFound for a selected task, then
\* after that cycle the stored status is cancelled, exactly one deletion
\* notice went to the origin chat and no direct message went to the reporter.
C2_ScenarioB ==
    \A r \in Runners : \A t \in Tasks :
        (CycleDone(r) /\ NotFoundSeen(r, t)) =>
            /\ db[t].status = TaskStatus_CANCELLED
            /\ Cardinality({k \in Sends(r, t, "deletion") :
                               log[r][k].chat_id = telegram_chat_id(t)}) = 1
            /\ Sends(r, t, "direct") = {}

(* ------------------------------- C3 ------------------------------------ *)
\* C3 (idempotence): a cycle that fetches a task whose remote state has not
\* changed since an earlier cycle fetched it writes nothing to the store
\* and sends no notification for that task.
C3_Idempotence ==
    \A r \in Runners : \A t \in Tasks :
        (\E k \in Gets(r, t) : log[r][k].again) =>
            /\ Writes(r, t) = {}
            /\ AllSends(r, t) = {}

(* ------------------------------- C4 ------------------------------------ *)
\* C4: with only the scheduled loop, a task whose stored status is completed
\* or cancelled is not written by any later step, whatever Bitrix24 reports.
C4_TerminalNeverWritten ==
    [][\A t \in Tasks :
          db[t].status \in Terminal =>
              /\ db'[t] = db[t]
              /\ \A r \in Runners :
                    Len(log'[r]) > Len(log[r]) =>
                       ~(log'[r][Len(log'[r])].ev = "write"
                           /\ log'[r][Len(log'[r])].task = t)]_vars

\* A cycle under way (so started with the present remote state) that has
\* synced a task, while another task is stored as completed and Bitrix24
\* reports it in progress.
C4_Witness ==
    \E t \in Tasks :
        /\ pc["sched"] = "sleep"
        /\ db[t].status = TaskStatus_COMPLETED
        /\ remote[t] = [kind |-> "task", status |-> "3"]
        /\ ~Selected("sched", t)
        /\ \E u \in Tasks : Gets("sched", u) # {}

(* ------------------------------- C5 ------------------------------------ *)
Advance(a, b) ==
    \/ a = TaskStatus_NEW /\ b \in {TaskStatus_IN_PROGRESS, TaskStatus_COMPLETED,
                                   TaskStatus_CANCELLED}
    \/ a = TaskStatus_IN_PROGRESS /\ b \in {TaskStatus_COMPLETED, TaskStatus_CANCELLED}

\* C5 as stated: every change of a stored status advances it along
\* new -> in_progress -> {completed, cancelled}.
C5_Monotonic ==
    [][\A t \in Tasks :
          db'[t].status # db[t].status => Advance(db[t].status, db'[t].status)]_vars

\* C5 amended: every change of a stored status is a write of the status
\* mapped from the remote code, and it advances the status the task was
\* selected with (the stored one, cycles not overlapping) along
\* new -> in_progress -> {completed, cancelled}, except that in_progress
\* is replaced by new when Bitrix24 reports "1" or "2".
C5_MonotonicButReopen ==
    [][\A t \in Tasks :
          db'[t].status # db[t].status =>
             \E r \in Runners :
                LET e == log'[r][Len(log'[r])] IN
                /\ log'[r] # log[r]
                /\ e.ev = "write" /\ e.task = t
                /\ e.old = db[t].status /\ e.status = db'[t].status
                /\ remote[t].kind = "task"
                /\ \/ Advance(e.old, e.status)
                   \/ /\ e.old = TaskStatus_IN_PROGRESS
                      /\ e.status = TaskStatus_NEW
                      /\ remote[t].status \in {"1", "2"}]_vars

C5_Witness ==
    \E r \in Runners : \E t \in Tasks : \E k \in Writes(r, t) :
        /\ log[r][k].old = TaskStatus_IN_PROGRESS
        /\ log[r][k].status = TaskStatus_NEW
        /\ db[t].status = TaskStatus_NEW

(* ------------------------------- C6 ------------------------------------ *)
\* C6: the local status mapped from a remote code is new for "1" and "2",
\* in_progress for "3", completed for "5" and "6", cancelled for "4" and
\* "7", and there is no mapping for any other code.
C6_StatusMapping ==
    \A r \in Runners : \A k \in DOMAIN log[r] :
        (log[r][k].ev = "get_task" /\ log[r][k].resp.kind = "task") =>
            LET code == log[r][k].resp.status
                m == log[r][k].mapped
            IN /\ code \in {"1", "2"} => m = TaskStatus_NEW
               /\ code = "3" => m = TaskStatus_IN_PROGRESS
               /\ code \in {"5", "6"} => m = TaskStatus_COMPLETED
               /\ code \in {"4", "7"} => m = TaskStatus_CANCELLED
               /\ code \notin {"1", "2", "3", "4", "5", "6", "7"} => m = Null

C6_Witness ==
    \E r \in Runners : \E k1, k2 \in DOMAIN log[r] :
        /\ log[r][k1].ev = "get_task" /\ log[r][k1].resp.kind = "task"
        /\ log[r][k1].resp.status = "7" /\ log[r][k1].mapped = TaskStatus_CANCELLED
        /\ log[r][k2].ev = "get_task" /\ log[r][k2].resp.kind = "task"
        /\ log[r][k2].resp.status = "6" /\ log[r][k2].mapped = TaskStatus_COMPLETED

C8_ScenarioA ==
    \A r \in Runners : \A t \in Tasks :
        ( /\ CycleDone(r)
          /\ startDb[r][t].status = TaskStatus_NEW
          /\ Got(r, t, [kind |-> "task", status |-> "3"])
          /\ WriteFailures(r, t) = {} ) =>
            /\ db[t].status = TaskStatus_IN_PROGRESS
            /\ Cardinality(Sends(r, t, "direct")) = 1
            /\ \A k \in Sends(r, t, "direct") :
                  log[r][k].chat_id = telegram_user_id(t)
            /\ Cardinality(Sends(r, t, "chat")) = 1
            /\ \A k \in Sends(r, t, "chat") :
                  /\ log[r][k].chat_id = telegram_chat_id(t)
                  /\ log[r][k].reply_to = telegram_message_id(t)
            /\ Sends(r, t, "deletion") = {}

C8_Witness ==
    \E t \in Tasks :
        /\ CycleDone("sched")
        /\ startDb["sched"][t].status = TaskStatus_NEW
        /\ Got("sched", t, [kind |-> "task", status |-> "3"])
        /\ db[t].status = TaskStatus_IN_PROGRESS
        /\ Cardinality(Sends("sched", t, "direct")) = 1
        /\ Cardinality(Sends("sched", t, "chat")) = 1

(* ------------------------------- C9 ------------------------------------ *)
\* C9: a status notification for a task is sent only after the write of
\* that status was committed, and whatever the outcome of the sends, after
\* the cycle the stored status is the one written.
C9_WriteBeforeNotify ==
    \A r \in Runners : \A t \in Tasks :
        /\ \A k \in Sends(r, t, "direct") \cup Sends(r, t, "chat") :
              \E j \in Writes(r, t) : j < k
        /\ \A j \in Writes(r, t) : db[t].status = log[r][j].status

C9_Witness ==
    \E t \in Tasks :
        /\ CycleDone("sched")
        /\ Writes("sched", t) # {}
        /\ Sends("sched", t, "direct") # {} /\ Sends("sched", t, "chat") # {}
        /\ active_tasks["sched"][Len(active_tasks["sched"])].id = t
        /\ send_failed["sched"] = {"direct", "chat"}
        /\ \A j \in Writes("sched", t) : db[t].status = log["sched"][j].status

(* ------------------------------- C10 ----------------------------------- *)
\* C10: when get_task returns a task whose status code is outside the
\* table, the cycle writes nothing and sends nothing for that task, and
\* after the cycle its stored status is what it was and the next selection
\* still takes it.
C10_UnknownCode ==
    \A r \in Runners : \A t \in Tasks :
        (\E k \in Gets(r, t) :
            /\ log[r][k].resp.kind = "task"
            /\ log[r][k].resp.status \notin {"1", "2", "3", "4", "5", "6", "7"}) =>
            /\ Writes(r, t) = {}
            /\ AllSends(r, t) = {}
            /\ CycleDone(r) =>
                  /\ db[t].status = startDb[r][t].status
                  /\ ActiveFilter(db[t])

C10_Witness ==
    \E t \in Tasks :
        /\ CycleDone("sched")
        /\ Got("sched", t, [kind |-> "task", status |-> "8"])
        /\ db[t].status = TaskStatus_IN_PROGRESS
        /\ ActiveFilter(db[t])


(* ------------------------------- C11 ----------------------------------- *)
\* The event loop resumes every coroutine whose await has completed: the
\* sleeps end, send_message returns or raises, the blocking calls return.
Fairness ==
    \A r \in Runners :
        /\ WF_vars(sync_all_active_tasks(r))
        /\ WF_vars(sync_single_task(r))
        /\ WF_vars(send_sync_notification(r))
        /\ WF_vars(send_chat_sync_notification(r))
        /\ WF_vars(send_deletion_notification_to_chat(r))
        /\ WF_vars(inter_task_sleep(r))
        /\ WF_vars(start_periodic_sync_sleep(r))

SpecLive == Init /\ [][Next]_vars /\ Fairness

\* C11 (loop liveness): whenever a cycle of the periodic loop has been ended
\* by an exception, the loop goes on and later starts another cycle.
C11_LoopLiveness ==
    \A r \in Runners :
        [](Aborted(r) => <>(pc[r] = "idle" /\ <>(pc[r] \in {"sync", "done"})))

\* A cycle of the scheduled loop ended by an exception, with a task in the
\* store that the next cycle has to sync.
C11_Witness ==
    /\ Aborted("sched")
    /\ \E t \in Tasks : ActiveFilter(db[t]) /\ db[t].status = TaskStatus_IN_PROGRESS


(* ------------------- SupportBot.sync_command (/sync) ------------------- *)
\* The handler answers, sets the Telegram application again (the one main
\* has set before initialized started) and awaits a cycle of its own.
sync_command ==
    sync_all_active_tasks(Manual)

\* sync_command starting the cycle as a task of its own and replying
\* without awaiting it.
sync_command_reply_no_await ==
    /\ pc[Manual] \in {"sleep", "done"}
    /\ pc' = [pc EXCEPT ![Manual] = "idle"]
    /\ active_tasks' = [active_tasks EXCEPT ![Manual] = <<>>]
    /\ log' = [log EXCEPT ![Manual] = <<>>]
    /\ send_failed' = [send_failed EXCEPT ![Manual] = {}]
    /\ delBefore' = [delBefore EXCEPT ![Manual] = {}]
    /\ startDb' = [startDb EXCEPT ![Manual] = db]
    /\ idx' = [idx EXCEPT ![Manual] = 0]
    /\ UNCHANGED <<db, remote, telegram_app, mapped_status, changes, seen,
                   deletionRan>>
    /\ UNCHANGED <<idvars, accvars>>

\* The cycle has returned: the handler replies and ends.
sync_command_reply ==
    /\ pc[Manual] = "done"
    /\ pc' = [pc EXCEPT ![Manual] = "idle"]
    /\ active_tasks' = [active_tasks EXCEPT ![Manual] = <<>>]
    /\ log' = [log EXCEPT ![Manual] = <<>>]
    /\ send_failed' = [send_failed EXCEPT ![Manual] = {}]
    /\ delBefore' = [delBefore EXCEPT ![Manual] = {}]
    /\ startDb' = [startDb EXCEPT ![Manual] = db]
    /\ UNCHANGED <<db, remote, telegram_app, idx, mapped_status, changes, seen,
                   deletionRan>>
    /\ UNCHANGED <<idvars, accvars>>

\* A change on the Bitrix24 side at any moment, also while cycles run.
RemoteChangeDuring(t, resp) ==
    /\ changes < MaxRemoteChanges
    /\ t \in Linked
    /\ resp # remote[t]
    /\ remote' = [remote EXCEPT ![t] = resp]
    /\ changes' = changes + 1
    /\ seen' = seen \ {t}
    /\ UNCHANGED <<db, telegram_app, pc, active_tasks, idx, mapped_status, log,
                   send_failed, deletionRan, delBefore, startDb>>
    /\ UNCHANGED <<idvars, accvars>>

\* The cycle of r met no failing query and no failing store write.
NoStoreFailure(r) ==
    \A k \in DOMAIN log[r] : log[r][k].ev \notin {"query_failed", "write_failed"}

\* The coroutines run on one event loop: one runs until it awaits.  A
\* runner at "sync" has returned from the query or from the inter-task
\* sleep and goes on to get_task without an await in between, so nobody
\* else takes a step before it has done so.
Turn(r) ==
    \A q \in AllRunners \ {r} : pc[q] # "sync"

\* The scheduled loop together with /sync handlers, interleaved at their
\* awaits.  Neither the store nor Telegram fails.
NextOverlap ==
    \/ set_telegram_app /\ \A q \in AllRunners : pc[q] # "sync"
    \/ Turn(Manual) /\ sync_command /\ NoStoreFailure(Manual)'
    \/ Turn(Manual) /\ sync_command_reply
    \/ \E r \in Runners :
          Turn(r) /\ sync_all_active_tasks(r) /\ NoStoreFailure(r)'
    \/ \E r \in AllRunners :
          Turn(r) /\ sync_single_task(r) /\ NoStoreFailure(r)'
    \/ \E r \in AllRunners :
          Turn(r) /\ send_sync_notification(r) /\ send_failed'[r] = {}
    \/ \E r \in AllRunners :
          Turn(r) /\ send_chat_sync_notification(r) /\ send_failed'[r] = {}
    \/ \E r \in AllRunners :
          Turn(r) /\ send_deletion_notification_to_chat(r) /\ send_failed'[r] = {}
    \/ \E r \in AllRunners : Turn(r) /\ inter_task_sleep(r)
    \/ \E r \in Runners : Turn(r) /\ start_periodic_sync_sleep(r)
    \/ \E t \in Tasks, resp \in Responses :
          RemoteChangeDuring(t, resp) /\ \A q \in AllRunners : pc[q] # "sync"

SpecOverlap == Init /\ [][NextOverlap]_vars


(* ------------------------------- C12 ----------------------------------- *)
\* C12: with a /sync cycle overlapping the scheduled cycle, a task whose
\* stored status is completed or cancelled is not written by any step of
\* either cycle, also when Bitrix24 changes between the two fetches.
C12_OverlapTerminalNeverWritten ==
    [][\A t \in Tasks :
          db[t].status \in Terminal =>
              /\ db'[t] = db[t]
              /\ \A r \in AllRunners :
                    Len(log'[r]) > Len(log[r]) =>
                       ~(log'[r][Len(log'[r])].ev = "write"
                           /\ log'[r][Len(log'[r])].task = t)]_vars

(* ------------------------------- C13 ----------------------------------- *)
\* Remote states a task is held in while cycles overlap: one for each
\* outcome of get_task and status_map.
FixedRemoteStates ==
    { [kind |-> "task", status |-> "2"],
      [kind |-> "task", status |-> "3"],
      [kind |-> "task", status |-> "5"],
      [kind |-> "task", status |-> "8"],
      [kind |-> "empty_list"],
      [kind |-> "error", text |-> <<"read", "timed", "out">>] }

\* The bot is initialized (main has set the Telegram application), the mirrored
\* tasks are new or in progress, and Bitrix24 holds each in some state.
InitFixed ==
    /\ \E st \in [Linked -> {TaskStatus_NEW, TaskStatus_IN_PROGRESS}] :
          db = [t \in Tasks |->
                  [status |-> IF t \in Linked THEN st[t] ELSE TaskStatus_NEW,
                   bitrix24_task_id |-> bitrix24_task_id(t)]]
    /\ \E rs \in [Linked -> FixedRemoteStates] :
          remote = [t \in Tasks |->
                      IF t \in Linked THEN rs[t] ELSE [kind |-> "empty_list"]]
    /\ telegram_app = TRUE
    /\ pc = [r \in AllRunners |-> "idle"]
    /\ active_tasks = [r \in AllRunners |-> <<>>]
    /\ idx = [r \in AllRunners |-> 0]
    /\ mapped_status = [r \in AllRunners |-> Null]
    /\ log = [r \in AllRunners |-> <<>>]
    /\ send_failed = [r \in AllRunners |-> {}]
    /\ changes = 0
    /\ seen = {}
    /\ deletionRan = {}
    /\ delBefore = [r \in AllRunners |-> {}]
    /\ startDb = [r \in AllRunners |-> db]
    /\ InitIdentity

\* The scheduled loop and /sync handlers while Bitrix24 does not change and
\* neither the store nor Telegram fails.
NextFixed ==
    \/ Turn(Manual) /\ sync_command /\ NoStoreFailure(Manual)'
    \/ Turn(Manual) /\ sync_command_reply
    \/ \E r \in Runners :
          Turn(r) /\ sync_all_active_tasks(r) /\ NoStoreFailure(r)'
    \/ \E r \in AllRunners :
          Turn(r) /\ sync_single_task(r) /\ NoStoreFailure(r)'
    \/ \E r \in AllRunners :
          Turn(r) /\ send_sync_notification(r) /\ send_failed'[r] = {}
    \/ \E r \in AllRunners :
          Turn(r) /\ send_chat_sync_notification(r) /\ send_failed'[r] = {}
    \/ \E r \in AllRunners :
          Turn(r) /\ send_deletion_notification_to_chat(r) /\ send_failed'[r] = {}
    \/ \E r \in AllRunners : Turn(r) /\ inter_task_sleep(r)
    \/ \E r \in Runners : Turn(r) /\ start_periodic_sync_sleep(r)

SpecFixed == InitFixed /\ [][NextFixed]_vars

\* Stored status of task t after one cycle that runs alone on store d with
\* Bitrix24 answering resp.
SingleCycle(d, t, resp) ==
    IF ~ActiveFilter(d[t]) THEN d[t].status
    ELSE LET res == get_task(resp) IN
         CASE res.out = "raise" -> d[t].status
           [] res.out = "none" -> handle_deleted_task_commit(d, t)[t].status
           [] res.out = "dict" /\ status_map(res.status) = Null -> d[t].status
           [] OTHER -> status_map(res.status)

\* C13: when a /sync cycle and a scheduled cycle have overlapped while the
\* remote state of every task stayed the same, the stored status of every
\* task after both have finished is the one a single cycle running alone
\* from the store either of them started with would have produced.
C13_OverlapEqualsSingle ==
    (\A r \in AllRunners : CycleDone(r)) =>
        \A r \in AllRunners : \A t \in Tasks :
            db[t].status = SingleCycle(startDb[r], t, remote[t])

\* Both cycles selected a new task, both fetched it, both wrote in_progress.
C13_Witness ==
    /\ \A r \in AllRunners : CycleDone(r)
    /\ \E t \in Tasks :
          /\ \A r \in AllRunners :
                /\ startDb[r][t].status = TaskStatus_NEW
                /\ Writes(r, t) # {}
          /\ db[t].status = TaskStatus_IN_PROGRESS


(* ============== Telegram <-> Bitrix24 identity operations ============== *)
allvars == <<vars, idvars, accvars>>

\* SupportBot.get_employee_bitrix_id without its try/except.
get_employee_bitrix_id_unguarded(c, l, b, bu, tg, okLoad, okLookup, okDb) ==
    LET r == get_bitrix_user_id(c, l, b, tg, okLoad, okLookup) IN
    IF r.result # NoUser
      THEN [cache |-> r.cache, loaded |-> r.loaded, status |-> "ok",
            result |-> r.result, calls |-> r.calls, failed |-> r.failed]
      ELSE [cache |-> r.cache, loaded |-> r.loaded,
            status |-> IF okDb THEN "ok" ELSE "raise",
            result |-> IF okDb THEN bu[tg] ELSE NoUser,
            calls |-> r.calls \o <<"fallback">>,
            failed |-> r.failed \cup (IF okDb THEN {} ELSE {"fallback"})]

\* SupportBot.get_employee_bitrix_id asking the bot_users table first.
get_employee_bitrix_id_fallback_first(c, l, b, bu, tg, okLoad, okLookup, okDb) ==
    IF okDb /\ bu[tg] # NoUser
      THEN [cache |-> c, loaded |-> l, status |-> "ok", result |-> bu[tg],
            calls |-> <<"fallback">>, failed |-> {}]
      ELSE LET r == get_bitrix_user_id(c, l, b, tg, okLoad, okLookup) IN
           [cache |-> r.cache, loaded |-> r.loaded, status |-> "ok",
            result |-> r.result, calls |-> <<"fallback">> \o r.calls,
            failed |-> r.failed \cup (IF okDb THEN {} ELSE {"fallback"})]

\* SupportBot.get_employee_bitrix_id: get_bitrix_user_id, then the bot_users
\* table; a failing query is caught and gives None.
get_employee_bitrix_id(c, l, b, bu, tg, okLoad, okLookup, okDb) ==
    LET r == get_bitrix_user_id(c, l, b, tg, okLoad, okLookup) IN
    IF r.result # NoUser
      THEN [cache |-> r.cache, loaded |-> r.loaded, status |-> "ok",
            result |-> r.result, calls |-> r.calls, failed |-> r.failed]
      ELSE [cache |-> r.cache, loaded |-> r.loaded, status |-> "ok",
            result |-> IF okDb THEN bu[tg] ELSE NoUser,
            calls |-> r.calls \o <<"fallback">>,
            failed |-> r.failed \cup (IF okDb THEN {} ELSE {"fallback"})]

\* The outcomes of a request that is made only when needed.
Outcomes(needed) == IF needed THEN BOOLEAN ELSE {TRUE}

\* get_bitrix_user_id goes on to the point lookup: the cache, loaded first
\* when it was not, does not hold the Telegram id.
CacheMiss(c, l, b, tg, okLoad) ==
    (IF l THEN c ELSE load_cache(b, okLoad).cache)[tg] = NoUser

\* The post_init job: load_cache once after start.
post_init ==
    /\ ~initialized
    /\ initialized' = TRUE
    /\ \E ok \in BOOLEAN :
          LET ld == load_cache(bitrix_users, ok) IN
          /\ cached_users' = ld.cache
          /\ cache_loaded' = ld.loaded
          /\ op' = Op("load", NoTelegram, NoUser, "ok", NoUser, <<"load">>,
                      IF ok THEN {} ELSE {"load"})
    /\ UNCHANGED <<bitrix_users, bot_users, edits>>
    /\ UNCHANGED vars
    /\ UNCHANGED <<loading, accvars>>

\* A handler resolving the sender of a message (create_bitrix_task_immediately).
resolve(tg) ==
    /\ \E okLoad \in Outcomes(~cache_loaded) :
       \E okLookup \in Outcomes(CacheMiss(cached_users, cache_loaded, bitrix_users,
                                          tg, okLoad)) :
          LET r == get_bitrix_user_id(cached_users, cache_loaded, bitrix_users, tg,
                                      okLoad, okLookup) IN
          /\ cached_users' = r.cache
          /\ cache_loaded' = r.loaded
          /\ op' = Op("resolve", tg, NoUser, "ok", r.result, r.calls, r.failed)
    /\ UNCHANGED <<bitrix_users, bot_users, initialized, edits>>
    /\ UNCHANGED vars
    /\ UNCHANGED <<loading, accvars>>

\* A call of SupportBot.get_employee_bitrix_id.
resolve_employee(tg) ==
    /\ \E okLoad \in Outcomes(~cache_loaded) :
       \E okLookup \in Outcomes(CacheMiss(cached_users, cache_loaded, bitrix_users,
                                          tg, okLoad)) :
       \E okDb \in BOOLEAN :
          LET r == get_employee_bitrix_id(cached_users, cache_loaded, bitrix_users,
                                          bot_users, tg, okLoad, okLookup, okDb) IN
          /\ cached_users' = r.cache
          /\ cache_loaded' = r.loaded
          /\ op' = Op("resolve_employee", tg, NoUser, r.status, r.result, r.calls,
                      r.failed)
    /\ UNCHANGED <<bitrix_users, bot_users, initialized, edits>>
    /\ UNCHANGED vars
    /\ UNCHANGED <<loading, accvars>>

\* /link_telegram <Bitrix24_ID> <Telegram_ID>: the user must exist, the
\* Telegram id must not resolve to another user, add_telegram_link, and
\* after the confirmation was sent refresh_cache.
link_telegram_body(u, tg) ==
    /\ \E okUsers \in BOOLEAN :
       \E okLoad \in Outcomes(okUsers /\ ~cache_loaded) :
       \E okLookup \in Outcomes(okUsers /\ CacheMiss(cached_users, cache_loaded,
                                                     bitrix_users, tg, okLoad)) :
          LET all_users == get_users(bitrix_users, okUsers)
              r == get_bitrix_user_id(cached_users, cache_loaded, bitrix_users, tg,
                                      okLoad, okLookup)
          IN
          IF ~\E i \in DOMAIN all_users : all_users[i].ID = u
            THEN /\ op' = Op("link", tg, u, "not_found", NoUser, <<>>, {})
                 /\ UNCHANGED <<bitrix_users, cached_users, cache_loaded, bot_users>>
          ELSE IF r.result # NoUser /\ r.result # u
            THEN /\ cached_users' = r.cache
                 /\ cache_loaded' = r.loaded
                 /\ op' = Op("link", tg, u, "conflict", r.result, <<>>, {})
                 /\ UNCHANGED <<bitrix_users, bot_users>>
          ELSE \E okWrite \in BOOLEAN :
               \E okDb, okReply \in Outcomes(okWrite) :
               \E okRefresh \in Outcomes(okWrite /\ okReply) :
                  LET a == add_telegram_link(r.cache, bot_users, bitrix_users, u, tg,
                                             okWrite, okDb)
                  IN
                  /\ bitrix_users' = a.bitrix
                  /\ bot_users' = a.bot_users
                  /\ cached_users' = IF a.result /\ okReply
                                       THEN load_cache(a.bitrix, okRefresh).cache
                                       ELSE a.cache
                  /\ cache_loaded' = r.loaded
                  /\ op' = Op("link", tg, u, IF a.result THEN "ok" ELSE "write_failed",
                              r.result, <<>>, {})
    /\ UNCHANGED <<initialized, edits>>
    /\ UNCHANGED vars
    /\ UNCHANGED loading

\* The command as an administrator calls it: the access check passes and
\* leaves the bot_users roles as they are.
link_telegram_command(u, tg) ==
    link_telegram_body(u, tg) /\ UNCHANGED accvars

\* /unlink_telegram <Telegram_ID>: get_user_info, remove_telegram_link, and
\* after the confirmation was sent refresh_cache.
unlink_telegram_body(tg) ==
    /\ \E okLoad \in Outcomes(~cache_loaded) :
       \E okLookup \in Outcomes(CacheMiss(cached_users, cache_loaded, bitrix_users,
                                          tg, okLoad)) :
          LET r == get_bitrix_user_id(cached_users, cache_loaded, bitrix_users, tg,
                                      okLoad, okLookup)
          IN
          \E okUsers \in Outcomes(r.result # NoUser) :
             LET all_users == get_users(bitrix_users, okUsers) IN
             IF r.result = NoUser
                  \/ ~\E i \in DOMAIN all_users : all_users[i].ID = r.result
               THEN /\ cached_users' = r.cache
                    /\ cache_loaded' = r.loaded
                    /\ op' = Op("unlink", tg, NoUser, "not_found", r.result, <<>>, {})
                    /\ UNCHANGED bitrix_users
               ELSE \E okWrite \in BOOLEAN :
                    \E okReply \in Outcomes(okWrite) :
                    \E okRefresh \in Outcomes(okWrite /\ okReply) :
                       LET d == remove_telegram_link(r.cache, bitrix_users, tg, TRUE,
                                                     okWrite)
                       IN
                       /\ bitrix_users' = d.bitrix
                       /\ cached_users' = IF d.result /\ okReply
                                            THEN load_cache(d.bitrix, okRefresh).cache
                                            ELSE d.cache
                       /\ cache_loaded' = r.loaded
                       /\ op' = Op("unlink", tg, NoUser, d.status, r.result, <<>>, {})
    /\ UNCHANGED <<bot_users, initialized, edits>>
    /\ UNCHANGED vars
    /\ UNCHANGED loading

unlink_telegram_command(tg) ==
    unlink_telegram_body(tg) /\ UNCHANGED accvars

\* sync_with_local_database: every pair of the cache goes to bot_users.
sync_with_local_database(c, bu, okDb) ==
    [tg \in TelegramIds |-> IF c[tg] # NoUser /\ okDb[tg] THEN c[tg] ELSE bu[tg]]

\* /sync_bitrix: refresh_cache, then sync_with_local_database.
sync_bitrix_command ==
    /\ \E okRefresh \in BOOLEAN : \E okDb \in [TelegramIds -> BOOLEAN] :
          LET ld == load_cache(bitrix_users, okRefresh) IN
          /\ cached_users' = ld.cache
          /\ cache_loaded' = ld.loaded
          /\ bot_users' = sync_with_local_database(ld.cache, bot_users, okDb)
          /\ op' = Op("sync_bitrix", NoTelegram, NoUser, "ok", NoUser, <<"load">>,
                      IF okRefresh THEN {} ELSE {"load"})
    /\ UNCHANGED <<bitrix_users, initialized, edits>>
    /\ UNCHANGED vars
    /\ UNCHANGED <<loading, accvars>>

\* An administrator of the portal edits a user's Telegram field in Bitrix24.
BitrixEdit(u, f, val) ==
    /\ edits < MaxBitrixEdits
    /\ bitrix_users[u][f] # val
    /\ edits' = edits + 1
    /\ bitrix_users' = [bitrix_users EXCEPT ![u][f] = val]
    /\ op' = Op("edit", NoTelegram, NoUser, "ok", NoUser, <<>>, {})
    /\ UNCHANGED <<cached_users, cache_loaded, bot_users, initialized>>
    /\ UNCHANGED vars
    /\ UNCHANGED <<loading, accvars>>

NextIdentity ==
    \/ post_init
    \/ \E tg \in TelegramIds : resolve(tg)
    \/ \E tg \in TelegramIds : resolve_employee(tg)
    \/ \E u \in BitrixUsers : \E tg \in TelegramIds : link_telegram_command(u, tg)
    \/ \E tg \in TelegramIds : unlink_telegram_command(tg)
    \/ sync_bitrix_command
    \/ \E u \in BitrixUsers : \E f \in {"uf", "custom"} :
          \E val \in TelegramIds \cup {NoTelegram} : BitrixEdit(u, f, val)

SpecIdentity == Init /\ [][NextIdentity]_allvars

TypeOKIdentity ==
    /\ bitrix_users \in [BitrixUsers -> [uf : TelegramIds \cup {NoTelegram},
                                         custom : TelegramIds \cup {NoTelegram}]]
    /\ cached_users \in [TelegramIds -> BitrixUsers \cup {NoUser}]
    /\ cache_loaded \in BOOLEAN
    /\ bot_users \in [TelegramIds -> BitrixUsers \cup {NoUser}]
    /\ initialized \in BOOLEAN
    /\ edits \in 0..MaxBitrixEdits
    /\ op.result \in BitrixUsers \cup {NoUser}


(* ----------------------- reading the call record ----------------------- *)
\* The users of the portal that carry the Telegram id in one of the fields.
ExternalHolders(b, tg) ==
    {u \in BitrixUsers : \E f \in 1..Len(possible_fields) : b[u][possible_fields[f]] = tg}

\* The step is a call of get_bitrix_user_id or get_employee_bitrix_id.
ResolveStep == op'.name \in {"resolve", "resolve_employee"}

(* ------------------------------- C14 ----------------------------------- *)
\* C14: resolving a Telegram id that neither the cache nor any user of the
\* portal nor the bot_users table knows returns None and does not raise,
\* whichever of the cache load, the point lookup and the table query fail.
C14_UnknownUnresolved ==
    [][(/\ ResolveStep
        /\ cached_users[op'.tg] = NoUser
        /\ ExternalHolders(bitrix_users, op'.tg) = {}
        /\ bot_users[op'.tg] = NoUser) =>
           /\ op'.status = "ok"
           /\ op'.result = NoUser]_allvars

\* get_employee_bitrix_id returned None for an unknown id after the cache
\* load, the point lookup and the table query all failed.
C14_Witness ==
    /\ op.name = "resolve_employee"
    /\ op.failed = {"load", "lookup", "fallback"}
    /\ op.status = "ok" /\ op.result = NoUser
    /\ cached_users[op.tg] = NoUser
    /\ ExternalHolders(bitrix_users, op.tg) = {}
    /\ bot_users[op.tg] = NoUser


(* ------------------------------- C15 ----------------------------------- *)
\* C15: a /link_telegram for a Telegram id that a different user of the
\* portal already carries is rejected, and the cache, the bot_users table
\* and the users of the portal are after it what they were before.
C15_LinkConflict ==
    [][(/\ op'.name = "link"
        /\ ExternalHolders(bitrix_users, op'.tg) \ {op'.user} # {}) =>
           /\ op'.status # "ok"
           /\ cached_users' = cached_users
           /\ bot_users' = bot_users
           /\ bitrix_users' = bitrix_users]_allvars


(* ------------------------------- C16 ----------------------------------- *)
\* C16: a get_bitrix_user_id for a Telegram id that directly follows a
\* successful /link_telegram of that id returns the user it was linked to.
C16_LinkRoundTrip ==
    [][(/\ op.name = "link" /\ op.status = "ok"
        /\ op'.name = "resolve" /\ op'.tg = op.tg) =>
           op'.result = op.user]_allvars


(* ------------------------------- C17 ----------------------------------- *)
\* The caches get_bitrix_user_id can leave behind when called for tg.
ResolveCaches(tg) ==
    {get_bitrix_user_id(cached_users, cache_loaded, bitrix_users, tg,
                        okLoad, okLookup).cache : okLoad, okLookup \in BOOLEAN}

\* C17 as stated: a /link_telegram whose user.update fails reports the
\* failure and leaves the cache and the bot_users table as they were; the
\* cache and bot_users change only when user.update succeeded.
C17_LinkFailureFrame ==
    [][op'.name = "link" =>
         /\ op'.status = "write_failed" =>
               /\ cached_users' = cached_users
               /\ bot_users' = bot_users
         /\ (cached_users' # cached_users \/ bot_users' # bot_users) =>
               /\ op'.status = "ok"
               /\ bitrix_users'[op'.user].uf = op'.tg]_allvars

\* C17 amended: a /link_telegram whose user.update fails reports the
\* failure, leaves bot_users and the users of the portal as they were and
\* changes the cache at most as the get_bitrix_user_id of its conflict check
\* does (load when nothing was loaded, insertion of the pair found by the
\* point lookup); bot_users changes, and the cache changes in any other way,
\* only when user.update succeeded.
C17_LinkFailureFrameButResolve ==
    [][op'.name = "link" =>
         /\ op'.status = "write_failed" =>
               /\ bot_users' = bot_users
               /\ bitrix_users' = bitrix_users
               /\ cached_users' \in ResolveCaches(op'.tg)
         /\ (bot_users' # bot_users
               \/ cached_users' \notin {cached_users} \cup ResolveCaches(op'.tg)) =>
               /\ op'.status = "ok"
               /\ bitrix_users'[op'.user].uf = op'.tg]_allvars

\* user.update failed for a user who carries the id in another field: the
\* conflict check has put the pair into the cache, bot_users has no row.
C17_Witness ==
    /\ op.name = "link" /\ op.status = "write_failed"
    /\ cached_users[op.tg] = op.user
    /\ bitrix_users[op.user].uf = NoTelegram
    /\ bitrix_users[op.user].custom = op.tg
    /\ bot_users[op.tg] = NoUser


(* ------------------------------- C18 ----------------------------------- *)
\* C18: when the user.get request of a load_cache fails, the cache is
\* empty afterwards and the loaded flag is false, so that the next
\* get_bitrix_user_id loads again.
C18_LoadFailure ==
    [][(op'.name = "load" /\ "load" \in op'.failed) =>
          /\ \A tg \in TelegramIds : cached_users'[tg] = NoUser
          /\ cache_loaded' = FALSE]_allvars


(* ------------------------------- C19 ----------------------------------- *)
\* C19 as stated: an /unlink_telegram that fails, because the id does not
\* resolve or because user.update fails, leaves the cache, the bot_users
\* table and the users of the portal as they were.
C19_UnlinkFailureFrame ==
    [][(op'.name = "unlink" /\ op'.status # "ok") =>
          /\ cached_users' = cached_users
          /\ bot_users' = bot_users
          /\ bitrix_users' = bitrix_users]_allvars

\* C19 amended: an /unlink_telegram that fails leaves bot_users and the
\* users of the portal as they were and changes the cache at most as the
\* get_bitrix_user_id it starts with does (load when nothing was loaded,
\* insertion of the pair found by the point lookup).
C19_UnlinkFailureFrameButResolve ==
    [][(op'.name = "unlink" /\ op'.status # "ok") =>
          /\ bot_users' = bot_users
          /\ bitrix_users' = bitrix_users
          /\ cached_users' \in ResolveCaches(op'.tg)]_allvars

\* user.update failed in an /unlink_telegram: the user still carries the id
\* and the cache still holds the pair.
C19_Witness ==
    /\ op.name = "unlink" /\ op.status = "write_failed"
    /\ op.result # NoUser
    /\ cached_users[op.tg] = op.result
    /\ bitrix_users[op.result].uf = op.tg


(* ------------------------------- C20 ----------------------------------- *)
\* The tiers a call asked, in order, the load of the cache left out.
RECURSIVE Tiers(_)
Tiers(calls) ==
    IF calls = <<>> THEN <<>>
    ELSE IF Head(calls) = "load" THEN Tiers(Tail(calls))
    ELSE <<Head(calls)>> \o Tiers(Tail(calls))

\* C20: a resolution asks the cache first and returns its value without
\* asking further; on a cache miss it asks the point lookup and returns what
\* that finds without asking further; get_employee_bitrix_id asks the
\* bot_users table only when both gave nothing.
C20_ResolutionOrder ==
    [][ResolveStep =>
          LET tg == op'.tg
              c == IF cache_loaded THEN cached_users
                   ELSE load_cache(bitrix_users, "load" \notin op'.failed).cache
              found == find_bitrix_user_by_telegram(bitrix_users, tg,
                                                    "lookup" \notin op'.failed)
          IN
          IF c[tg] # NoUser
            THEN Tiers(op'.calls) = <<"cache">> /\ op'.result = c[tg]
          ELSE IF found # NoUser
            THEN Tiers(op'.calls) = <<"cache", "lookup">> /\ op'.result = found
          ELSE IF op'.name = "resolve"
            THEN Tiers(op'.calls) = <<"cache", "lookup">> /\ op'.result = NoUser
          ELSE /\ Tiers(op'.calls) = <<"cache", "lookup", "fallback">>
               /\ op'.result = IF "fallback" \in op'.failed THEN NoUser
                                                            ELSE bot_users[tg]]_allvars

\* get_employee_bitrix_id went through the cache and the point lookup and
\* returned the id only the bot_users table holds.
C20_Witness ==
    /\ op.name = "resolve_employee"
    /\ Tiers(op.calls) = <<"cache", "lookup", "fallback">>
    /\ op.failed = {}
    /\ op.result # NoUser
    /\ op.result = bot_users[op.tg]
    /\ cached_users[op.tg] = NoUser
    /\ ExternalHolders(bitrix_users, op.tg) = {}


(* =============== creation of tasks (handle_mention, type_ callback)  ====== *)
\* Tasks created in Bitrix24 during a behaviour.
MaxRemoteTasks == 4

\* No row in the tasks table yet.
NoRow == [status |-> Null, bitrix24_task_id |-> NullId]

\* TaskService.create_task: a row with status new and no Bitrix24 id.
create_task == [status |-> TaskStatus_NEW, bitrix24_task_id |-> NullId]

RECURSIVE MaxId(_, _)
MaxId(d, n) ==
    IF n = 0 THEN 500
    ELSE IF d[n].bitrix24_task_id > MaxId(d, n - 1) THEN d[n].bitrix24_task_id
    ELSE MaxId(d, n - 1)

\* tasks.task.add: Bitrix24 gives every new task an id of its own.
tasks_task_add(d) == MaxId(d, NumTasks + 1) + 1

\* TaskService.update_bitrix_task_id.
update_bitrix_task_id(d, t, id) ==
    [d EXCEPT ![t].bitrix24_task_id = id]

\* handle_mention for a mention of the bot: create_task, then
\* create_bitrix_task_immediately; when tasks.task.add fails the row stays
\* without a Bitrix24 id.
handle_mention(t) ==
    /\ db[t] = NoRow
    /\ \E ok \in BOOLEAN :
          LET d == [db EXCEPT ![t] = create_task] IN
          IF ok /\ tasks_task_add(d) <= 500 + MaxRemoteTasks
            THEN /\ db' = update_bitrix_task_id(d, t, tasks_task_add(d))
                 /\ remote' = [remote EXCEPT ![t] = [kind |-> "task", status |-> "2"]]
            ELSE /\ db' = d
                 /\ UNCHANGED remote
    /\ UNCHANGED <<telegram_app, pc, active_tasks, idx, mapped_status, log,
                   send_failed, changes, seen, deletionRan, delBefore, startDb>>
    /\ UNCHANGED <<idvars, accvars>>

\* handle_type_selection for a type_<task id>_<type> callback:
\* update_task_type, tasks.task.add, update_bitrix_task_id.
handle_type_selection(t) ==
    /\ db[t] # NoRow
    /\ tasks_task_add(db) <= 500 + MaxRemoteTasks
    /\ db' = update_bitrix_task_id(db, t, tasks_task_add(db))
    /\ remote' = [remote EXCEPT ![t] = [kind |-> "task", status |-> "2"]]
    /\ UNCHANGED <<telegram_app, pc, active_tasks, idx, mapped_status, log,
                   send_failed, changes, seen, deletionRan, delBefore, startDb>>
    /\ UNCHANGED <<idvars, accvars>>

\* An empty tasks table.
InitCreate ==
    /\ db = [t \in Tasks |-> NoRow]
    /\ remote = [t \in Tasks |-> [kind |-> "empty_list"]]
    /\ telegram_app = TRUE
    /\ pc = [r \in AllRunners |-> "idle"]
    /\ active_tasks = [r \in AllRunners |-> <<>>]
    /\ idx = [r \in AllRunners |-> 0]
    /\ mapped_status = [r \in AllRunners |-> Null]
    /\ log = [r \in AllRunners |-> <<>>]
    /\ send_failed = [r \in AllRunners |-> {}]
    /\ changes = 0
    /\ seen = {}
    /\ deletionRan = {}
    /\ delBefore = [r \in AllRunners |-> {}]
    /\ startDb = [r \in AllRunners |-> db]
    /\ InitIdentity

NextCreate ==
    \/ \E t \in Tasks : handle_mention(t)
    \/ \E t \in Tasks : handle_type_selection(t)

SpecCreate == InitCreate /\ [][NextCreate]_vars

(* ------------------------------- C21 ----------------------------------- *)
\* C21: once the bitrix24_task_id of a task is set, no later step stores a
\* different value in it.
C21_ExternalIdImmutable ==
    [][\A t \in Tasks :
          db[t].bitrix24_task_id # NullId =>
             db'[t].bitrix24_task_id = db[t].bitrix24_task_id]_vars


(* ------------------------------- C22 ----------------------------------- *)
\* C22: whatever a cycle fetches, writes or sends is for a task that had a
\* bitrix24_task_id and status new or in_progress when the cycle started;
\* the task without a bitrix24_task_id is never fetched, written or notified.
C22_CycleSelection ==
    \A r \in Runners :
        /\ \A k \in DOMAIN log[r] :
              log[r][k].ev \in {"get_task", "write", "write_failed", "send"} =>
                 LET row == startDb[r][log[r][k].task] IN
                 /\ row.bitrix24_task_id # NullId
                 /\ row.status \in {TaskStatus_NEW, TaskStatus_IN_PROGRESS}
        /\ Gets(r, LocalOnly) = {}
        /\ Writes(r, LocalOnly) = {}
        /\ AllSends(r, LocalOnly) = {}

\* A finished cycle that wrote a status for one task and left alone a task
\* stored as cancelled and the task without a bitrix24_task_id, which is
\* still stored as new.
C22_Witness ==
    /\ CycleDone("sched")
    /\ db[LocalOnly].status = TaskStatus_NEW
    /\ \E t, u \in Linked :
          /\ startDb["sched"][t].status = TaskStatus_CANCELLED
          /\ Gets("sched", t) = {}
          /\ Writes("sched", u) # {}


(* ------------------------------- C23 ----------------------------------- *)
\* /sync handlers alone, one after the other, the store and Telegram
\* failing at will; Bitrix24 changes between the commands.
NextManual ==
    \/ set_telegram_app
    \/ sync_command
    \/ sync_single_task(Manual)
    \/ send_sync_notification(Manual)
    \/ send_chat_sync_notification(Manual)
    \/ send_deletion_notification_to_chat(Manual)
    \/ inter_task_sleep(Manual)
    \/ sync_command_reply
    \/ \E t \in Tasks, resp \in Responses : RemoteChange(t, resp) /\ pc[Manual] = "idle"

SpecManual == Init /\ [][NextManual]_vars

\* The handler sends its final reply in this step.
ReplyStep == pc[Manual] # "idle" /\ pc'[Manual] = "idle"

\* C23: /sync sends its completion reply only when the cycle it awaited has
\* returned, every task that cycle selected having been fetched.
C23_ReplyAfterCycle ==
    [][ReplyStep =>
          /\ CycleDone(Manual)
          /\ \A k \in DOMAIN active_tasks[Manual] :
                Gets(Manual, active_tasks[Manual][k].id) # {}]_vars

\* The cycle of a /sync has returned after two tasks, the write for the
\* first one having failed; the reply is the next step.
C23_Witness ==
    /\ CycleDone(Manual)
    /\ Len(active_tasks[Manual]) = 2
    /\ \A k \in DOMAIN active_tasks[Manual] :
          Gets(Manual, active_tasks[Manual][k].id) # {}
    /\ WriteFailures(Manual, active_tasks[Manual][1].id) # {}


(* ------------------------------- C24 ----------------------------------- *)
\* C24: the deletion path is taken only for a task Bitrix24 reported as not
\* existing (the empty list of tasks.task.get); after an error of the
\* request, or an answer without task data, the cycle neither runs
\* handle_deleted_task nor writes nor sends anything for the task.
C24_DeletionOnlyOnNotFound ==
    \A r \in Runners : \A t \in Tasks :
        /\ \A k \in Gets(r, t) :
              log[r][k].out = "none" => log[r][k].resp.kind = "empty_list"
        /\ (\E k \in Gets(r, t) : log[r][k].resp.kind \in {"error", "no_task"}) =>
              /\ Writes(r, t) = {}
              /\ AllSends(r, t) = {}


(* ------------------------------- C25 ----------------------------------- *)
\* A store operation of the runner's cycle failed.
PersistenceFailed(r) ==
    \E k \in DOMAIN log[r] : log[r][k].ev \in {"query_failed", "write_failed"}

\* C25 as stated: a failing selection query or status write ends the
\* cycle: nothing is fetched, written or sent after it in that cycle.
C25_PersistenceAborts ==
    \A r \in Runners : \A k \in DOMAIN log[r] :
        log[r][k].ev \in {"query_failed", "write_failed"} => k = Len(log[r])

\* C25 amended: a failing selection query ends the cycle with nothing
\* fetched, written or sent; a failing status write leaves the task as it
\* was stored and without notifications, and the cycle goes on to fetch
\* every later task it selected; either way the loop sleeps and starts the
\* next cycle.
C25_PersistenceSkipsTask ==
    /\ [](\A r \in Runners :
            /\ (\E k \in DOMAIN log[r] : log[r][k].ev = "query_failed") =>
                  /\ log[r] = <<EvFail("query_failed", 0)>>
                  /\ active_tasks[r] = <<>>
                  /\ CycleDone(r)
            /\ \A t \in Tasks :
                  WriteFailures(r, t) # {} =>
                     /\ Writes(r, t) = {}
                     /\ AllSends(r, t) = {}
                     /\ db[t].status = startDb[r][t].status
            /\ CycleDone(r) =>
                  \A k \in DOMAIN active_tasks[r] :
                     Gets(r, active_tasks[r][k].id) # {})
    /\ \A r \in Runners :
          [](PersistenceFailed(r) =>
                <>(pc[r] = "idle" /\ <>(pc[r] \in {"sync", "done"})))

\* A finished cycle in which the write for the first task failed and the
\* second task was fetched, written and notified.
C25_Witness ==
    /\ CycleDone("sched")
    /\ Len(active_tasks["sched"]) = 2
    /\ WriteFailures("sched", active_tasks["sched"][1].id) # {}
    /\ Writes("sched", active_tasks["sched"][2].id) # {}
    /\ Sends("sched", active_tasks["sched"][2].id, "direct") # {}


(* ------------------------------- C26 ----------------------------------- *)
\* C26: after a successful /unlink_telegram of a Telegram id, resolving
\* that id through the cache, the point lookup and the bot_users table
\* gives None as long as no new link is made; checked on the resolution
\* that directly follows the unlink.
C26_UnlinkThenUnresolved ==
    [][(/\ op.name = "unlink" /\ op.status = "ok"
        /\ op'.name = "resolve_employee" /\ op'.tg = op.tg) =>
           op'.result = NoUser]_allvars

(* ------------------------------- C27 ----------------------------------- *)
\* C27: in a cycle that wrote a new status for a task, the direct message
\* to the reporter and the reply in the origin chat are each attempted
\* exactly once when the task is done (never more than once before), and
\* the reply is attempted also when the direct message failed.
Notifying(r, t, steps) ==
    /\ pc[r] \in steps
    /\ idx[r] \in DOMAIN active_tasks[r]
    /\ active_tasks[r][idx[r]].id = t

C27_NotificationIndependence ==
    \A r \in Runners : \A t \in Tasks :
        /\ Cardinality(Sends(r, t, "direct")) <= 1
        /\ Cardinality(Sends(r, t, "chat")) <= 1
        /\ (Writes(r, t) # {} /\ ~Notifying(r, t, {"send_direct"})) =>
              Cardinality(Sends(r, t, "direct")) = 1
        /\ (Writes(r, t) # {} /\ ~Notifying(r, t, {"send_direct", "send_chat"})) =>
              Cardinality(Sends(r, t, "chat")) = 1

C27_Witness ==
    \E t \in Tasks :
        /\ CycleDone("sched")
        /\ Writes("sched", t) # {}
        /\ active_tasks["sched"][Len(active_tasks["sched"])].id = t
        /\ send_failed["sched"] = {"direct"}
        /\ Cardinality(Sends("sched", t, "direct")) = 1
        /\ Cardinality(Sends("sched", t, "chat")) = 1

(* ------------------------------- C28 ----------------------------------- *)
\* load_cache taken statement by statement, to see what a concurrent
\* get_bitrix_user_id could read. All callers run on the thread of the
\* event loop and load_cache is a plain function without await, so no
\* other handler is scheduled between its first and its last statement.

\* load_cache giving up the thread between its statements.
EventLoopFree_load_yields == TRUE

EventLoopFree == loading.pc = "idle"

LoadOp(ok) ==
    Op("load", NoTelegram, NoUser, "ok", NoUser, <<"load">>,
       IF ok THEN {} ELSE {"load"})

\* The first statement of a load: refresh_cache clears the flag before
\* load_cache, the post_init job calls load_cache as the flag stands; then
\* get_users_with_telegram_ids is fetched.
load_cache_fetch(refresh) ==
    /\ loading.pc = "idle"
    /\ refresh \/ ~initialized
    /\ initialized' = (initialized \/ ~refresh)
    /\ cache_loaded' = (cache_loaded /\ ~refresh)
    /\ \E ok \in BOOLEAN :
          /\ loading' = [pc |-> "fetched", users |-> get_users(bitrix_users, ok),
                         k |-> 1, before |-> cached_users]
          /\ op' = LoadOp(ok)
    /\ UNCHANGED <<bitrix_users, cached_users, bot_users, edits>>
    /\ UNCHANGED vars
    /\ UNCHANGED accvars

\* self._cached_users.clear()
load_cache_clear ==
    /\ loading.pc = "fetched"
    /\ cached_users' = [tg \in TelegramIds |-> NoUser]
    /\ loading' = [loading EXCEPT !.pc = "filling"]
    /\ op' = LoadOp(TRUE)
    /\ UNCHANGED <<bitrix_users, cache_loaded, bot_users, initialized, edits>>
    /\ UNCHANGED vars
    /\ UNCHANGED accvars

\* One turn of the loop over users_with_tg.
load_cache_insert ==
    /\ loading.pc = "filling"
    /\ loading.k <= Len(loading.users)
    /\ LET user == loading.users[loading.k]
           tg == TELEGRAM_ID(user)
       IN cached_users' = IF tg # NoTelegram
                            THEN [cached_users EXCEPT ![tg] = user.ID]
                            ELSE cached_users
    /\ loading' = [loading EXCEPT !.k = @ + 1]
    /\ op' = LoadOp(TRUE)
    /\ UNCHANGED <<bitrix_users, cache_loaded, bot_users, initialized, edits>>
    /\ UNCHANGED vars
    /\ UNCHANGED accvars

\* self._cache_loaded = True
load_cache_loaded ==
    /\ loading.pc = "filling"
    /\ loading.k > Len(loading.users)
    /\ cache_loaded' = TRUE
    /\ loading' = [loading EXCEPT !.pc = "idle"]
    /\ op' = LoadOp(TRUE)
    /\ UNCHANGED <<bitrix_users, cached_users, bot_users, initialized, edits>>
    /\ UNCHANGED vars
    /\ UNCHANGED accvars

NextLoad ==
    \/ \E refresh \in BOOLEAN : load_cache_fetch(refresh)
    \/ load_cache_clear
    \/ load_cache_insert
    \/ load_cache_loaded
    \/ \E tg \in TelegramIds : EventLoopFree /\ resolve(tg)
    \/ \E u \in BitrixUsers : \E f \in {"uf", "custom"} :
          \E val \in TelegramIds \cup {NoTelegram} : BitrixEdit(u, f, val)

SpecLoad == Init /\ [][NextLoad]_allvars

\* The map the load in progress (or the last one) builds.
NewMap == LoadedMap(loading.users, Len(loading.users))

\* C28: a get_bitrix_user_id that reads the cache while a load_cache is
\* under way reads the whole map from before the load or the whole newly
\* loaded one (empty when the fetch failed), never a map in between; and a
\* finished load leaves the whole new map.
C28_AtomicLoad ==
    /\ [][(op'.name = "resolve" /\ cache_loaded) =>
            \/ loading.pc = "idle"
            \/ cached_users \in {loading.before, NewMap}]_allvars
    /\ [][(loading.pc # "idle" /\ loading'.pc = "idle") =>
            cached_users' = NewMap']_allvars

C28_Witness ==
    /\ op.name = "resolve"
    /\ op.calls = <<"cache">>
    /\ loading.pc = "idle"
    /\ loading.users # <<>>
    /\ \E tg \in TelegramIds :
          /\ loading.before[tg] \notin {NoUser, NewMap[tg]}
          /\ NewMap[tg] # NoUser
          /\ op.tg = tg /\ op.result = NewMap[tg]

(* ------------------------------- C29 ----------------------------------- *)
\* C29: a get_bitrix_user_id that misses the cache and finds the user by
\* the point lookup adds the pair to the cache, and the get_bitrix_user_id
\* for the same Telegram id that directly follows returns the same user
\* from the cache alone, with no request to Bitrix24; a lookup that fails
\* or finds nobody returns None and adds nothing.
LookedUp(o) == o.name = "resolve" /\ Tiers(o.calls) = <<"cache", "lookup">>

C29_CacheAside ==
    /\ [][LookedUp(op') =>
            /\ cached_users'[op'.tg] = op'.result
            /\ cache_loaded =>
                  cached_users' = [cached_users EXCEPT ![op'.tg] = op'.result]
            /\ "lookup" \in op'.failed => op'.result = NoUser]_allvars
    /\ [][(/\ LookedUp(op) /\ op.result # NoUser
            /\ op'.name = "resolve" /\ op'.tg = op.tg) =>
               /\ op'.result = op.result
               /\ op'.calls = <<"cache">>
               /\ op'.failed = {}]_allvars

C29_Witness ==
    /\ LookedUp(op)
    /\ op.calls = <<"cache", "lookup">>
    /\ op.result # NoUser
    /\ cached_users[op.tg] = op.result
    /\ op.result \in ExternalHolders(bitrix_users, op.tg)

(* ------------------------------- C30 ----------------------------------- *)
\* The users of the portal whose first non-empty Telegram field is tg.
Carriers(b, tg) ==
    {u \in BitrixUsers :
        (IF b[u].uf # NoTelegram THEN b[u].uf ELSE b[u].custom) = tg}

\* The step is a /sync_bitrix whose refresh_cache fetched the users.
RefreshStep == op'.name = "sync_bitrix" /\ op'.failed = {}

LastOf(S) == CHOOSE u \in S : \A v \in S : v <= u

\* C30 as stated: after a refresh_cache whose user.get succeeded the cache
\* is loaded and holds exactly the pairs (Telegram id, user) of the users
\* of the portal that carry a Telegram id.
C30_RefreshExact ==
    [][RefreshStep =>
          /\ cache_loaded'
          /\ \A tg \in TelegramIds : \A u \in BitrixUsers :
                (cached_users'[tg] = u) <=> (u \in Carriers(bitrix_users', tg))]_allvars

\* C30: after a refresh_cache whose user.get succeeded the cache is loaded
\* and maps every Telegram id that some user of the portal carries to the
\* last such user in the order of user.get, and no other Telegram id; what
\* the cache held before (from a point lookup or a link) has no influence.
C30_RefreshLastCarrier ==
    [][RefreshStep =>
          /\ cache_loaded'
          /\ \A tg \in TelegramIds :
                cached_users'[tg] =
                    IF Carriers(bitrix_users', tg) = {} THEN NoUser
                    ELSE LastOf(Carriers(bitrix_users', tg))]_allvars

C30_Witness ==
    /\ op.name = "sync_bitrix" /\ op.failed = {}
    /\ cache_loaded
    /\ \E tg \in TelegramIds :
          /\ Cardinality(Carriers(bitrix_users, tg)) >= 2
          /\ cached_users[tg] = LastOf(Carriers(bitrix_users, tg))
          /\ bot_users[tg] \notin {NoUser, cached_users[tg]}

(* ------------------------------- C31 ----------------------------------- *)
\* C31: a /sync whose cycle failed (the selection query raised) does not
\* send the success confirmation. The reply that follows the awaited
\* cycle, sync_command_reply, is that confirmation; the failure reply of
\* the handler is sent only when an exception reaches the handler.
C31_ManualFailureSignal ==
    [][ReplyStep => ~Aborted(Manual)]_vars

(* ------------------------------- C32 ----------------------------------- *)
\* The loop goes from a returned cycle into its pause. The only pause
\* reached after sync_all_active_tasks has returned is the regular one,
\* asyncio.sleep(interval_minutes * 60), the step start_periodic_sync_sleep.
RegularPauseStep(r) == pc[r] = "done" /\ pc'[r] = "idle"

\* C32: the regular poll interval is waited only after a cycle that
\* completed normally; after a cycle that ended in failure (the selection
\* query raised) the loop waits the 60 s pause instead.
C32_PauseSelection ==
    [][\A r \in Runners : RegularPauseStep(r) => ~Aborted(r)]_vars

(* ------------------------------- C33 ----------------------------------- *)
\* The task of start_periodic_sync is cancelled (the event loop shuts
\* down). asyncio raises CancelledError at the await the coroutine is
\* suspended in: a send_message, the sleep between two tasks or the sleep
\* between two cycles. CancelledError is no Exception, so none of the
\* except clauses of the service catches it: the finally of
\* sync_all_active_tasks closes the session and the coroutine ends there.
cancel(r) ==
    /\ pc[r] \in {"idle", "send_direct", "send_chat", "send_deletion", "sleep"}
    /\ pc' = [pc EXCEPT ![r] = "exited"]
    /\ UNCHANGED <<db, remote, telegram_app, active_tasks, idx, mapped_status,
                   log, send_failed, changes, seen, deletionRan, delBefore,
                   startDb>>
    /\ UNCHANGED <<idvars, accvars>>

NextCancel ==
    \/ Next
    \/ \E r \in Runners : cancel(r)

SpecCancel == Init /\ [][NextCancel]_vars

\* C33: when the loop is cancelled while a cycle is in flight, the loop
\* exits only after that cycle has fetched every task it selected.
C33_GracefulCancellation ==
    \A r \in Runners :
        pc[r] = "exited" =>
            \A k \in DOMAIN active_tasks[r] :
                Gets(r, active_tasks[r][k].id) # {}

(* ------------------------------- C34 ----------------------------------- *)
\* C34: a cycle whose selection succeeded fetches every task it selected,
\* also the tasks that come after one whose get_task raised or whose
\* status write failed.
C34_FaultIsolation ==
    \A r \in Runners :
        (CycleDone(r) /\ ~Aborted(r)) =>
            \A k \in DOMAIN active_tasks[r] :
                Gets(r, active_tasks[r][k].id) # {}

C34_Witness ==
    /\ CycleDone("sched")
    /\ Len(active_tasks["sched"]) = 2
    /\ \E k \in Gets("sched", active_tasks["sched"][1].id) :
          log["sched"][k].out = "raise"
    /\ Writes("sched", active_tasks["sched"][2].id) # {}

(* ------------------------------- C35 ----------------------------------- *)
\* The last event of the record of r after the step.
LastEv(r) == log'[r][Len(log'[r])]

\* The step is taken by runner q.
StepOf(q) == pc'[q] # pc[q] \/ log'[q] # log[q] \/ idx'[q] # idx[q]

\* C35: with a /sync cycle overlapping the scheduled cycle, every status
\* write of a cycle happens in the same step as the get_task it is based
\* on, that get_task having read Bitrix24 as it is in that step and the
\* write starting from the status the task was selected with; and another
\* runner takes a step only while the cycle is between cycles, in a
\* notification send or in the sleep between two tasks.
C35_FetchCompareWriteAtomic ==
    [][\A r \in AllRunners :
          /\ (Len(log'[r]) > Len(log[r]) /\ LastEv(r).ev = "write") =>
                /\ Len(log'[r]) = Len(log[r]) + 2
                /\ LET g == log'[r][Len(log'[r]) - 1] IN
                      /\ g.ev = "get_task"
                      /\ g.task = LastEv(r).task
                      /\ g.resp = remote[g.task]
                      /\ LastEv(r).status = g.mapped
                /\ LastEv(r).old = active_tasks[r][idx[r]].status
                /\ db'[LastEv(r).task].status = LastEv(r).status
          /\ \A q \in AllRunners \ {r} :
                StepOf(q) =>
                    pc[r] \in {"idle", "done", "send_direct", "send_chat",
                               "send_deletion", "sleep"}]_vars

\* Both cycles are under way, each suspended in a send or a sleep, and
\* both have fetched and written the same task.
C35_Witness ==
    \E t \in Tasks :
        /\ pc["sched"] \in {"send_direct", "send_chat", "sleep"}
        /\ pc[Manual] \in {"send_direct", "send_chat", "sleep"}
        /\ Gets("sched", t) # {} /\ Gets(Manual, t) # {}
        /\ Writes("sched", t) # {} /\ Writes(Manual, t) # {}

(* ------------------------------- C36 ----------------------------------- *)
\* C36: while the remote state of a task stays the same, the scheduled
\* cycle and an overlapping /sync cycle together send at most one direct
\* message and at most one chat reply about the status of the task.
C36_NoDuplicateNotifications ==
    \A t \in Tasks :
        /\ Cardinality(Sends("sched", t, "direct"))
             + Cardinality(Sends(Manual, t, "direct")) <= 1
        /\ Cardinality(Sends("sched", t, "chat"))
             + Cardinality(Sends(Manual, t, "chat")) <= 1

(* ------------------------------- C37 ----------------------------------- *)
\* SupportBot.handle_employee_telegram_id_input: the Telegram id typed for
\* a pending employee u is refused when bot_users binds it to another
\* user, and is otherwise written to bot_users; neither the cache nor
\* Bitrix24 is asked or written.
handle_employee_telegram_id_input(u, tg) ==
    /\ \E okDb \in Outcomes(bot_users[tg] \in {NoUser, u}) :
          IF bot_users[tg] \notin {NoUser, u}
            THEN /\ op' = Op("add_employee", tg, u, "conflict", bot_users[tg], <<>>, {})
                 /\ UNCHANGED bot_users
            ELSE /\ bot_users' = update_global_user_profile(bot_users, tg, u, okDb)
                 /\ op' = Op("add_employee", tg, u, "ok", NoUser, <<>>, {})
    /\ UNCHANGED <<bitrix_users, cached_users, cache_loaded, initialized, edits>>
    /\ UNCHANGED vars
    /\ UNCHANGED <<loading, accvars>>

NextTiers ==
    \/ NextIdentity
    \/ \E u \in BitrixUsers : \E tg \in TelegramIds :
          handle_employee_telegram_id_input(u, tg)

SpecTiers == Init /\ [][NextTiers]_allvars

\* C37: the cache and the bot_users table never bind the same Telegram id
\* to two different Bitrix24 users.
C37_TierAgreement ==
    \A tg \in TelegramIds :
        (cached_users[tg] # NoUser /\ bot_users[tg] # NoUser) =>
            cached_users[tg] = bot_users[tg]

(* ---------------- auth_decorators / UserManagementService -------------- *)
UserRole_ADMIN == "admin"
UserRole_CLIENT == "client"
\* get_user_role found no active row.
NoneRole == "None"

\* UserManagementService.get_or_create_user: a new row is a client.
get_or_create_user(rl, u) ==
    IF rl[u] = NoRole
      THEN [rl EXCEPT ![u] = [role |-> UserRole_CLIENT, is_active |-> TRUE]]
      ELSE rl

\* UserManagementService.is_first_user: the table has no row.
is_first_user(rl) == \A u \in BotUserIds : rl[u] = NoRole

\* UserManagementService.set_user_role
set_user_role(rl, u, new_role) ==
    IF rl[u] # NoRole THEN [rl EXCEPT ![u].role = new_role] ELSE rl

\* get_user_role without the filter on is_active.
get_user_role_inactive_too(rl, u) == rl[u].role

\* UserManagementService.get_user_role: the role of the active row.
get_user_role(rl, u) ==
    IF rl[u] # NoRole /\ rl[u].is_active THEN rl[u].role ELSE NoneRole

\* The part of the wrappers before the access decision: the row of the
\* caller is created, then is_first_user is asked.
enter(rl, caller) ==
    LET created == get_or_create_user(rl, caller) IN
    IF is_first_user(created)
      THEN set_user_role(created, caller, UserRole_ADMIN)
      ELSE created

\* require_role.wrapper: the table after the wrapper and its decision.
require_role(rl, caller, required_role) ==
    LET entered == enter(rl, caller)
        user_role == get_user_role(entered, caller)
    IN [roles |-> entered,
        allowed |-> /\ user_role # NoneRole
                    /\ (user_role = UserRole_ADMIN \/ user_role = required_role)]

admin_only(rl, caller) == require_role(rl, caller, UserRole_ADMIN)

Request(cmd, caller, target, verdict) ==
    [cmd |-> cmd, caller |-> caller, target |-> target, verdict |-> verdict]

\* An admin_only command whose body does not write roles: the body runs
\* when the wrapper allows the caller, otherwise only the refusal is sent.
Guarded(cmd, caller, body) ==
    LET g == admin_only(roles, caller) IN
    /\ roles' = g.roles
    /\ IF g.allowed
         THEN /\ body
              /\ request' = Request(cmd, caller, 0, "allowed")
         ELSE /\ request' = Request(cmd, caller, 0, "denied")
              /\ UNCHANGED <<vars, idvars>>

\* /add_admin <id>
add_admin_command(caller, target) ==
    /\ LET g == admin_only(roles, caller)
           target_role == get_user_role(g.roles, target)
       IN IF ~g.allowed
            THEN /\ roles' = g.roles
                 /\ request' = Request("add_admin", caller, target, "denied")
          ELSE IF target_role = NoneRole
            THEN /\ roles' = g.roles
                 /\ request' = Request("add_admin", caller, target, "not_found")
          ELSE IF target_role = UserRole_ADMIN
            THEN /\ roles' = g.roles
                 /\ request' = Request("add_admin", caller, target, "already")
          ELSE /\ roles' = set_user_role(g.roles, target, UserRole_ADMIN)
               /\ request' = Request("add_admin", caller, target, "ok")
    /\ UNCHANGED <<vars, idvars>>

\* /remove_admin without the refusal of the caller's own id.
remove_admin_command_allow_self(caller, target) ==
    /\ LET g == admin_only(roles, caller)
           target_role == get_user_role(g.roles, target)
       IN IF ~g.allowed
            THEN /\ roles' = g.roles
                 /\ request' = Request("remove_admin", caller, target, "denied")
          ELSE IF target_role # UserRole_ADMIN
            THEN /\ roles' = g.roles
                 /\ request' = Request("remove_admin", caller, target, "not_admin")
          ELSE /\ roles' = set_user_role(g.roles, target, UserRole_CLIENT)
               /\ request' = Request("remove_admin", caller, target, "ok")
    /\ UNCHANGED <<vars, idvars>>

\* /remove_admin <id>
remove_admin_command(caller, target) ==
    /\ LET g == admin_only(roles, caller)
           target_role == get_user_role(g.roles, target)
       IN IF ~g.allowed
            THEN /\ roles' = g.roles
                 /\ request' = Request("remove_admin", caller, target, "denied")
          ELSE IF target = caller
            THEN /\ roles' = g.roles
                 /\ request' = Request("remove_admin", caller, target, "self")
          ELSE IF target_role # UserRole_ADMIN
            THEN /\ roles' = g.roles
                 /\ request' = Request("remove_admin", caller, target, "not_admin")
          ELSE /\ roles' = set_user_role(g.roles, target, UserRole_CLIENT)
               /\ request' = Request("remove_admin", caller, target, "ok")
    /\ UNCHANGED <<vars, idvars>>

\* A command under client_or_admin (/my_stats, ...): the wrapper lets
\* every active user in; the bodies read only.
client_or_admin(caller) ==
    /\ roles' = enter(roles, caller)
    /\ request' = Request("client", caller, 0,
                          IF get_user_role(roles', caller) = NoneRole
                            THEN "denied" ELSE "allowed")
    /\ UNCHANGED <<vars, idvars>>

\* The script make_admin.py, run by the operator for its fixed Telegram id.
your_telegram_id == 1

make_admin ==
    /\ roles' = IF roles[your_telegram_id] = NoRole
                  THEN [roles EXCEPT ![your_telegram_id] =
                          [role |-> UserRole_ADMIN, is_active |-> TRUE]]
                  ELSE [roles EXCEPT ![your_telegram_id].role = UserRole_ADMIN]
    /\ request' = Request("make_admin", 0, your_telegram_id, "ok")
    /\ UNCHANGED <<vars, idvars>>

\* UserManagementService.deactivate_user
deactivate_user(u) ==
    /\ roles[u] # NoRole /\ roles[u].is_active
    /\ roles' = [roles EXCEPT ![u].is_active = FALSE]
    /\ request' = Request("deactivate", 0, u, "ok")
    /\ UNCHANGED <<vars, idvars>>

\* Application.builder().build() leaves concurrent_updates off: an update is
\* taken from the queue when the handler of the previous one has returned,
\* so no command starts while a /sync handler awaits its cycle.
process_update == pc[Manual] = "idle"

\* Bitrix24 keeps its statuses in this specification: a cycle fetches every
\* task it selected and finds nothing to write, so it never reaches its
\* notification steps.
NextAccess ==
    \/ set_telegram_app
    \/ \E caller \in BotUserIds : \E u \in BitrixUsers : \E tg \in TelegramIds :
          process_update /\ Guarded("link", caller, link_telegram_body(u, tg))
    \/ \E caller \in BotUserIds : \E tg \in TelegramIds :
          process_update /\ Guarded("unlink", caller, unlink_telegram_body(tg))
    \/ \E caller \in BotUserIds :
          process_update /\ Guarded("sync", caller, start_cycle(Manual))
    \/ sync_single_task(Manual)
    \/ inter_task_sleep(Manual)
    \/ sync_command_reply
    \/ \E caller \in BotUserIds : process_update /\ client_or_admin(caller)
    \/ make_admin
    \/ \E u \in BotUserIds : deactivate_user(u)

SpecAccess == Init /\ [][NextAccess]_allvars

\* The commands that write roles, the script and the deactivation.
NextAdmins ==
    \/ \E caller, target \in BotUserIds : add_admin_command(caller, target)
    \/ \E caller, target \in BotUserIds : remove_admin_command(caller, target)
    \/ \E caller \in BotUserIds : client_or_admin(caller)
    \/ make_admin
    \/ \E u \in BotUserIds : deactivate_user(u)

SpecAdmins == Init /\ [][NextAdmins]_allvars

TypeOKAccess ==
    /\ roles \in [BotUserIds ->
                    [role : {UserRole_ADMIN, UserRole_CLIENT}, is_active : BOOLEAN]
                        \cup {NoRole}]
    /\ request.verdict \in {"none", "allowed", "denied", "ok", "not_found",
                             "already", "self", "not_admin"}

\* The commands behind admin_only, and all commands behind a wrapper.
AdminCommands == {"link", "unlink", "sync", "add_admin", "remove_admin"}
GuardedCommands == AdminCommands \cup {"client"}

IsActiveAdmin(rl, u) ==
    rl[u] # NoRole /\ rl[u].is_active /\ rl[u].role = UserRole_ADMIN

\* C39: when the user table is empty, the first user who invokes a
\* guarded command is made administrator by that call, and an admin_only
\* command of that first call is let through.
C39_FirstUserBootstrap ==
    [][(is_first_user(roles) /\ request'.cmd \in GuardedCommands)
         => /\ IsActiveAdmin(roles', request'.caller)
            /\ request'.verdict # "denied"]_allvars

(* ------------------------------- C38 ----------------------------------- *)
\* A step in which the body of /link_telegram, /unlink_telegram or /sync
\* acts: the link state is touched or a cycle of the handler starts.
BodyActs ==
    \/ <<bitrix_users, cached_users, cache_loaded, bot_users, op>>' #
          <<bitrix_users, cached_users, cache_loaded, bot_users, op>>
    \/ pc[Manual] = "idle" /\ pc'[Manual] # "idle"

\* A step that handles one of the three commands.
CommandStep ==
    /\ request'.cmd \in {"link", "unlink", "sync"}
    /\ pc[Manual] = "idle"
    /\ telegram_app' = telegram_app

\* C38: the body of /link_telegram, /unlink_telegram and /sync acts only in
\* a call whose caller has, when the call is made, an active row with role
\* admin; a call by a client, by a deactivated user or by a user without a
\* row is refused and changes neither the link state nor the sync state.
C38_AccessGuard ==
    /\ [][BodyActs =>
            /\ request'.cmd \in {"link", "unlink", "sync"}
            /\ request'.verdict = "allowed"
            /\ IsActiveAdmin(roles, request'.caller)]_allvars
    /\ [][(CommandStep /\ ~IsActiveAdmin(roles, request'.caller)) =>
            /\ request'.verdict = "denied"
            /\ UNCHANGED <<vars, idvars>>]_allvars

\* A deactivated administrator has just been refused /link_telegram, after
\* a link made while the row was active.
C38_Witness ==
    /\ request.cmd = "link"
    /\ request.verdict = "denied"
    /\ request.caller \in BotUserIds
    /\ roles[request.caller] = [role |-> UserRole_ADMIN, is_active |-> FALSE]
    /\ op.name = "link"

(* ------------------------------- C40 ----------------------------------- *)
ActiveAdmins(rl) == {u \in BotUserIds : IsActiveAdmin(rl, u)}

\* C40: when at least one active administrator exists, a /add_admin or
\* /remove_admin command leaves at least one active administrator.
C40_AdminNonExtinction ==
    [][(ActiveAdmins(roles) # {} /\ request'.cmd \in {"add_admin", "remove_admin"})
         => ActiveAdmins(roles') # {}]_allvars

\* An administrator has just demoted the only other one and is now the
\* single active administrator.
C40_Witness ==
    /\ request.cmd = "remove_admin"
    /\ request.verdict = "ok"
    /\ request.target # request.caller
    /\ roles[request.target] = [role |-> UserRole_CLIENT, is_active |-> TRUE]
    /\ ActiveAdmins(roles) = {request.caller}

====
